---- MODULE Spec2Model ----
(***************************************************************************)
(* plaud-tm: merge of timestamped transcript segments (merge.ts), the        *)
(* adjustment of the timestamps of a transcript (transcript.ts) and the      *)
(* helpers they use.                                                        *)
(*                                                                          *)
(* Strings are sequences of one-character strings; a path is the sequence   *)
(* of its segments (the string split on path.sep), relative to the working  *)
(* directory.  An optional value (T | null, T | undefined) is a sequence of *)
(* length at most one; the empty path is the empty string.                  *)
(***************************************************************************)
EXTENDS Integers, Sequences, FiniteSets, TLC

(***************************************************************************)
(* Bounds of the model.                                                     *)
(***************************************************************************)
\* longest list of patterns in a merge request
MaxPatterns == 2
\* longest text of the segments whose text is drawn freely
MaxLen == 1
\* largest number of lines of a transcript
MaxLines == 3

(***************************************************************************)
(* Program constants.                                                       *)
(***************************************************************************)
MAX_FILE_SIZE == 10 * 1024 * 1024

(***************************************************************************)
(* Characters and strings.                                                  *)
(***************************************************************************)
NL == "\n"
DigitChars == <<"0", "1", "2", "3", "4", "5", "6", "7", "8", "9">>
Digits == {DigitChars[k] : k \in 1..10}

\* /^\d{n}$/.test(s)
IsDigits(s, n) == Len(s) = n /\ \A k \in 1..Len(s) : s[k] \in Digits

DigitVal(c) == (CHOOSE k \in 1..10 : DigitChars[k] = c) - 1

\* parseInt(s, 10) of an all-digit string
RECURSIVE parseInt(_)
parseInt(s) ==
    IF s = <<>> THEN 0
    ELSE 10 * parseInt(SubSeq(s, 1, Len(s) - 1)) + DigitVal(s[Len(s)])

\* String(n).padStart(2, '0') for 0 <= n; a longer number is not truncated
RECURSIVE String(_)
String(n) ==
    IF n < 10 THEN <<DigitChars[n + 1]>>
    ELSE String(n \div 10) \o <<DigitChars[(n % 10) + 1]>>

padStart2(n) == IF n < 10 THEN <<"0">> \o String(n) ELSE String(n)

\* s.split(sep): the pieces of s between the occurrences of sep
RECURSIVE split(_, _)
split(s, sep) ==
    IF \A k \in 1..Len(s) : s[k] # sep THEN <<s>>
    ELSE LET k == CHOOSE j \in 1..Len(s) :
                     s[j] = sep /\ \A m \in 1..(j - 1) : s[m] # sep
         IN  <<SubSeq(s, 1, k - 1)>> \o split(SubSeq(s, k + 1, Len(s)), sep)

\* s.endsWith('\n')
endsWithNL(s) == Len(s) > 0 /\ s[Len(s)] = NL

(***************************************************************************)
(* node:path on relative paths.                                             *)
(***************************************************************************)
DOT == <<".">>

\* removal of the '.' segments, as path.normalize does
RECURSIVE normalize(_)
normalize(p) ==
    IF p = <<>> THEN <<>>
    ELSE IF p[1] = DOT THEN normalize(Tail(p))
         ELSE <<p[1]>> \o normalize(Tail(p))

\* path.dirname(p); '.' when p has a single segment
dirname(p) == IF Len(p) <= 1 THEN <<DOT>> ELSE SubSeq(p, 1, Len(p) - 1)

\* path.basename(p)
basename(p) == IF p = <<>> THEN <<>> ELSE p[Len(p)]

\* path.join(dir, name): concatenation, then normalization
join(dir, name) == normalize(dir \o <<name>>)

\* path.resolve(p): the absolute, normalized path; the working directory,
\* the same prefix for every path, is left implicit
resolve(p) == normalize(p)

(***************************************************************************)
(* Sort keys (merge.ts).                                                    *)
(***************************************************************************)
DateOnly(y, m, d) == [year |-> y, month |-> m, day |-> d]

\* FileSortKey; date is <<>> (null) or <<DateOnly>>
FileSortKey(date, t) ==
    [date |-> date, startHours |-> t.hours, startMinutes |-> t.minutes,
     startSeconds |-> t.seconds]

\* compareSortKeys without the comparison of the day
compareSortKeys_noDay(a, b) ==
    LET byTime ==
            IF a.startHours # b.startHours THEN a.startHours - b.startHours
            ELSE IF a.startMinutes # b.startMinutes
                 THEN a.startMinutes - b.startMinutes
                 ELSE a.startSeconds - b.startSeconds
    IN  IF a.date # <<>> /\ b.date # <<>>
        THEN IF a.date[1].year # b.date[1].year
             THEN a.date[1].year - b.date[1].year
             ELSE IF a.date[1].month # b.date[1].month
                  THEN a.date[1].month - b.date[1].month
                  ELSE byTime
        ELSE IF a.date # <<>> /\ b.date = <<>> THEN 1
             ELSE IF a.date = <<>> /\ b.date # <<>> THEN -1
                  ELSE byTime

\* compareSortKeys(a, b): negative, zero or positive
compareSortKeys(a, b) ==
    LET byTime ==
            IF a.startHours # b.startHours THEN a.startHours - b.startHours
            ELSE IF a.startMinutes # b.startMinutes
                 THEN a.startMinutes - b.startMinutes
                 ELSE a.startSeconds - b.startSeconds
    IN  IF a.date # <<>> /\ b.date # <<>>
        THEN IF a.date[1].year # b.date[1].year
             THEN a.date[1].year - b.date[1].year
             ELSE IF a.date[1].month # b.date[1].month
                  THEN a.date[1].month - b.date[1].month
                  ELSE IF a.date[1].day # b.date[1].day
                       THEN a.date[1].day - b.date[1].day
                       ELSE byTime
        ELSE IF a.date # <<>> /\ b.date = <<>> THEN 1
             ELSE IF a.date = <<>> /\ b.date # <<>> THEN -1
                  ELSE byTime

\* looksLikeFlatFormat(filename): YYYYMMDD_HHMMSS_HHMMSS
looksLikeFlatFormat(filename) ==
    LET parts == split(filename, "_")
    IN  /\ Len(parts) = 3
        /\ IsDigits(parts[1], 8)
        /\ IsDigits(parts[2], 6)
        /\ IsDigits(parts[3], 6)

\* looksLikeNestedFormat(filename): HHMMSS-HHMMSS
looksLikeNestedFormat(filename) ==
    LET parts == split(filename, "-")
    IN  /\ Len(parts) = 2
        /\ IsDigits(parts[1], 6)
        /\ IsDigits(parts[2], 6)

\* parseTimeDigits(value): <<>> (null) or <<[hours, minutes, seconds]>>
parseTimeDigits(value) ==
    IF ~IsDigits(value, 6) THEN <<>>
    ELSE LET hours   == parseInt(SubSeq(value, 1, 2))
             minutes == parseInt(SubSeq(value, 3, 4))
             seconds == parseInt(SubSeq(value, 5, 6))
         IN  IF hours > 23 \/ minutes > 59 \/ seconds > 59 THEN <<>>
             ELSE <<[hours |-> hours, minutes |-> minutes, seconds |-> seconds]>>

\* an extractDateFromPath that takes any two digits for the month and the day
\* of YYYY/MM/DD
extractDateFromPath_noRange(filepath) ==
    LET dir    == dirname(filepath)
        dayDir == basename(dir)
        dashed == /\ Len(dayDir) = 10
                  /\ IsDigits(SubSeq(dayDir, 1, 4), 4)
                  /\ dayDir[5] = "-"
                  /\ IsDigits(SubSeq(dayDir, 6, 7), 2)
                  /\ dayDir[8] = "-"
                  /\ IsDigits(SubSeq(dayDir, 9, 10), 2)
    IN  IF dashed
        THEN <<DateOnly(parseInt(SubSeq(dayDir, 1, 4)),
                        parseInt(SubSeq(dayDir, 6, 7)),
                        parseInt(SubSeq(dayDir, 9, 10)))>>
        ELSE IF /\ Len(dir) >= 3
                /\ IsDigits(dir[Len(dir) - 2], 4)
                /\ IsDigits(dir[Len(dir) - 1], 2)
                /\ IsDigits(dir[Len(dir)], 2)
             THEN <<DateOnly(parseInt(dir[Len(dir) - 2]), parseInt(dir[Len(dir) - 1]),
                             parseInt(dir[Len(dir)]))>>
             ELSE <<>>

\* extractDateFromPath(filepath): <<>> (null) or <<DateOnly>>
extractDateFromPath(filepath) ==
    LET dir    == dirname(filepath)
        dayDir == basename(dir)
        dashed == /\ Len(dayDir) = 10
                  /\ IsDigits(SubSeq(dayDir, 1, 4), 4)
                  /\ dayDir[5] = "-"
                  /\ IsDigits(SubSeq(dayDir, 6, 7), 2)
                  /\ dayDir[8] = "-"
                  /\ IsDigits(SubSeq(dayDir, 9, 10), 2)
        parts  == dir
    IN  IF dashed
        THEN <<DateOnly(parseInt(SubSeq(dayDir, 1, 4)),
                        parseInt(SubSeq(dayDir, 6, 7)),
                        parseInt(SubSeq(dayDir, 9, 10)))>>
        ELSE IF Len(parts) >= 3
             THEN LET dayPart   == parts[Len(parts)]
                      monthPart == parts[Len(parts) - 1]
                      yearPart  == parts[Len(parts) - 2]
                  IN  IF /\ IsDigits(yearPart, 4)
                         /\ IsDigits(monthPart, 2)
                         /\ IsDigits(dayPart, 2)
                      THEN LET year  == parseInt(yearPart)
                               month == parseInt(monthPart)
                               day   == parseInt(dayPart)
                           IN  IF month >= 1 /\ month <= 12 /\ day >= 1 /\ day <= 31
                               THEN <<DateOnly(year, month, day)>>
                               ELSE <<>>
                      ELSE <<>>
             ELSE <<>>

\* parseNested(filepath, filename): <<>> when it throws UnrecognizedFilename
parseNested(filepath, filename) ==
    LET parts     == split(filename, "-")
        startTime == parseTimeDigits(parts[1])
    IN  IF startTime = <<>> THEN <<>>
        ELSE <<FileSortKey(extractDateFromPath(filepath), startTime[1])>>

\* parseFlat(filepath, filename): <<>> when it throws UnrecognizedFilename;
\* DATE_COMPACT_REGEX is /^(\d{4})(\d{2})(\d{2})$/
parseFlat(filepath, filename) ==
    LET parts     == split(filename, "_")
        datePart  == parts[1]
        startPart == parts[2]
    IN  IF ~IsDigits(datePart, 8) THEN <<>>
        ELSE LET date == DateOnly(parseInt(SubSeq(datePart, 1, 4)),
                                  parseInt(SubSeq(datePart, 5, 6)),
                                  parseInt(SubSeq(datePart, 7, 8)))
                 startTime == parseTimeDigits(startPart)
             IN  IF startTime = <<>> THEN <<>>
                 ELSE <<FileSortKey(<<date>>, startTime[1])>>

\* basename.replace(/\.[^.]+$/, ''): the name without its extension
removeExtension(name) ==
    LET dots == {k \in 1..Len(name) : name[k] = "."}
    IN  IF dots = {} THEN name
        ELSE LET last == CHOOSE k \in dots : \A j \in dots : j <= k
             IN  IF last < Len(name) THEN SubSeq(name, 1, last - 1) ELSE name

\* a getSortKey that gives a name of neither format a key without a date at
\* 00:00:00 in place of throwing
getSortKey_lenient(filepath) ==
    LET filename == removeExtension(basename(filepath))
    IN  IF looksLikeFlatFormat(filename) THEN parseFlat(filepath, filename)
        ELSE IF looksLikeNestedFormat(filename)
             THEN parseNested(filepath, filename)
             ELSE <<FileSortKey(<<>>, [hours |-> 0, minutes |-> 0, seconds |-> 0])>>

\* getSortKey(filepath): <<>> when it throws UnrecognizedFilename(filepath)
getSortKey(filepath) ==
    LET filename == removeExtension(basename(filepath))
    IN  IF looksLikeFlatFormat(filename) THEN parseFlat(filepath, filename)
        ELSE IF looksLikeNestedFormat(filename)
             THEN parseNested(filepath, filename)
             ELSE <<>>

\* formatDateDashed(date): YYYY-MM-DD
formatDateDashed(date) ==
    String(date.year) \o <<"-">> \o padStart2(date.month) \o <<"-">>
        \o padStart2(date.day)

(***************************************************************************)
(* File names written by update (update.ts) and read by merge.              *)
(***************************************************************************)
Time(h, m, s) == [hours |-> h, minutes |-> m, seconds |-> s]

\* formatTimeCompact(dt): HHMMSS
formatTimeCompact(dt) ==
    padStart2(dt.hours) \o padStart2(dt.minutes) \o padStart2(dt.seconds)

\* formatDateCompact(date): YYYYMMDD
formatDateCompact(date) ==
    String(date.year) \o padStart2(date.month) \o padStart2(date.day)

TXT == <<".", "t", "x", "t">>

\* the nested file name of resolveOutputPath: HHMMSS-HHMMSS.txt
nestedName(first, last) ==
    formatTimeCompact(first) \o <<"-">> \o formatTimeCompact(last) \o TXT

\* the flat file name of resolveOutputPath: YYYYMMDD_HHMMSS_HHMMSS.txt
flatName(date, first, last) ==
    formatDateCompact(date) \o <<"_">> \o formatTimeCompact(first) \o <<"_">>
        \o formatTimeCompact(last) \o TXT

\* the nested directory of resolveOutputPath: YYYY/MM/DD
nestedDir(date) == <<String(date.year), padStart2(date.month), padStart2(date.day)>>

(***************************************************************************)
(* Timestamps (transcript.ts).  A DateTime is a record of year, month, day, *)
(* hours, minutes and seconds.                                              *)
(***************************************************************************)
\* TIME_REGEX.exec(value): /^(\d{2}):(\d{2}):(\d{2})$/
matchesTimeRegex(value) ==
    /\ Len(value) = 8
    /\ IsDigits(SubSeq(value, 1, 2), 2)
    /\ value[3] = ":"
    /\ IsDigits(SubSeq(value, 4, 5), 2)
    /\ value[6] = ":"
    /\ IsDigits(SubSeq(value, 7, 8), 2)

\* parseTime without the check of the ranges
parseTime_noRange(value) ==
    IF ~matchesTimeRegex(value) THEN <<>>
    ELSE <<Time(parseInt(SubSeq(value, 1, 2)), parseInt(SubSeq(value, 4, 5)),
                parseInt(SubSeq(value, 7, 8)))>>

\* parseTime(value): <<>> (null) or <<Time>>
parseTime(value) ==
    IF ~matchesTimeRegex(value) THEN <<>>
    ELSE LET hours   == parseInt(SubSeq(value, 1, 2))
             minutes == parseInt(SubSeq(value, 4, 5))
             seconds == parseInt(SubSeq(value, 7, 8))
         IN  IF hours > 23 \/ minutes > 59 \/ seconds > 59 THEN <<>>
             ELSE <<Time(hours, minutes, seconds)>>

\* formatTime without the padding of the fields
formatTime_unpadded(time) ==
    String(time.hours) \o <<":">> \o String(time.minutes) \o <<":">>
        \o String(time.seconds)

\* formatTime(time): HH:MM:SS
formatTime(time) ==
    padStart2(time.hours) \o <<":">> \o padStart2(time.minutes) \o <<":">>
        \o padStart2(time.seconds)

\* timeToSeconds(time)
timeToSeconds(time) == time.hours * 3600 + time.minutes * 60 + time.seconds

\* secondsToTimeWithOverflow(totalSeconds), totalSeconds >= 0
secondsToTimeWithOverflow(totalSeconds) ==
    LET remainingSeconds == totalSeconds % 86400
    IN  [time |-> Time(remainingSeconds \div 3600,
                       (remainingSeconds % 3600) \div 60,
                       remainingSeconds % 60),
         daysOverflow |-> totalSeconds \div 86400]

\* the days of a month of the calendar of Date
daysInMonth(year, month) ==
    IF month = 2
    THEN IF (year % 4 = 0 /\ year % 100 # 0) \/ year % 400 = 0 THEN 29 ELSE 28
    ELSE IF month \in {4, 6, 9, 11} THEN 30 ELSE 31

\* what Date makes of a day number beyond the end of the month, month in 1..12
RECURSIVE rollOver(_)
rollOver(d) ==
    IF d.day <= daysInMonth(d.year, d.month) THEN d
    ELSE rollOver(IF d.month = 12
                  THEN DateOnly(d.year + 1, 1, d.day - daysInMonth(d.year, d.month))
                  ELSE DateOnly(d.year, d.month + 1,
                                d.day - daysInMonth(d.year, d.month)))

\* new Date(year, monthIndex, day): a year in 0..99 is taken as 1900 + year
newDate(year, month, day) ==
    rollOver(DateOnly(IF year >= 0 /\ year <= 99 THEN 1900 + year ELSE year,
                      month, day))

\* addDays(date, days), days >= 0: new Date(...), setDate(getDate() + days)
addDays(date, days) ==
    LET d == newDate(date.year, date.month, date.day)
    IN  rollOver(DateOnly(d.year, d.month, d.day + days))

\* createDateTime(date, time)
createDateTime(date, time) ==
    [year |-> date.year, month |-> date.month, day |-> date.day,
     hours |-> time.hours, minutes |-> time.minutes, seconds |-> time.seconds]

\* compareDateTime that compares the time of day only
compareDateTime_timeOnly(a, b) ==
    IF a.hours # b.hours THEN a.hours - b.hours
    ELSE IF a.minutes # b.minutes THEN a.minutes - b.minutes
         ELSE a.seconds - b.seconds

\* compareDateTime(a, b): negative, zero or positive
compareDateTime(a, b) ==
    IF a.year # b.year THEN a.year - b.year
    ELSE IF a.month # b.month THEN a.month - b.month
    ELSE IF a.day # b.day THEN a.day - b.day
    ELSE IF a.hours # b.hours THEN a.hours - b.hours
    ELSE IF a.minutes # b.minutes THEN a.minutes - b.minutes
    ELSE a.seconds - b.seconds

\* parseTimestampLine that takes a line of exactly 8 characters only
parseTimestampLine_exact8(line) ==
    IF Len(line) # 8 THEN <<>>
    ELSE LET time == parseTime(SubSeq(line, 1, 8))
         IN  IF time = <<>> THEN <<>>
             ELSE <<[time |-> time[1], rest |-> SubSeq(line, 9, Len(line))]>>

\* parseTimestampLine(line): <<>> (null) or <<[time, rest]>>
parseTimestampLine(line) ==
    IF Len(line) < 8 THEN <<>>
    ELSE LET time == parseTime(SubSeq(line, 1, 8))
         IN  IF time = <<>> THEN <<>>
             ELSE <<[time |-> time[1], rest |-> SubSeq(line, 9, Len(line))]>>

\* applyOffset(start, effectiveDate, relative): the adjusted DateTime
applyOffset(start, date, relative) ==
    LET totalSeconds == timeToSeconds(start) + timeToSeconds(relative)
        r            == secondsToTimeWithOverflow(totalSeconds)
        adjustedDate == IF r.daysOverflow > 0 THEN addDays(date, r.daysOverflow)
                        ELSE date
    IN  createDateTime(adjustedDate, r.time)

\* contents.split('\n'), the last piece popped when contents ends with '\n'
splitLines(text) ==
    LET pieces == split(text, NL)
    IN  IF endsWithNL(text) /\ pieces[Len(pieces)] = <<>>
        THEN SubSeq(pieces, 1, Len(pieces) - 1)
        ELSE pieces

\* adjustedLines.join('\n')
RECURSIVE joinLines(_)
joinLines(ls) ==
    IF ls = <<>> THEN <<>>
    ELSE IF Len(ls) = 1 THEN ls[1]
         ELSE joinLines(SubSeq(ls, 1, Len(ls) - 1)) \o <<NL>> \o ls[Len(ls)]

\* the body without the newline put back after the join
makeBody_joinOnly(ls, hasTrailingNewline) == joinLines(ls)

\* the body: the lines joined, the trailing newline put back
makeBody(ls, hasTrailingNewline) ==
    IF hasTrailingNewline THEN joinLines(ls) \o <<NL>> ELSE joinLines(ls)

(***************************************************************************)
(* The file system: a function from the entries (normalized paths) that     *)
(* exist to their nodes.  A node is a regular file, with its text and its   *)
(* size in bytes, or a symbolic link to an entry.  The text of a file is    *)
(* kept short, its size is what stat reports.  Directories are implicit.    *)
(***************************************************************************)
File(content, size) ==
    [kind |-> "file", content |-> content, size |-> size, target |-> <<>>]

Link(target) ==
    [kind |-> "link", content |-> <<>>, size |-> 0, target |-> target]

\* the entry reached from entry e through at most n links; <<>> if none
RECURSIVE follow(_, _, _)
follow(f, e, n) ==
    IF e \notin DOMAIN f THEN <<>>
    ELSE IF f[e].kind = "file" THEN e
         ELSE IF n = 0 THEN <<>> ELSE follow(f, f[e].target, n - 1)

\* fs.realpathSync(p); <<>> when it throws ENOENT
realpathSync(f, p) == follow(f, resolve(p), Cardinality(DOMAIN f))

\* fs.existsSync(p)
existsSync(f, p) == realpathSync(f, p) # <<>>

\* fs.statSync(p).size, fs.readFileSync(p, 'utf-8'): of an existing path
statSize(f, p) == f[realpathSync(f, p)].size

readFileSync(f, p) == f[realpathSync(f, p)].content

\* the canonical form taken to be the path as it is spelled
canonical_literal(f, p) == p

\* fs.existsSync(p) ? fs.realpathSync(p) : path.resolve(p)
canonical(f, p) == IF existsSync(f, p) THEN realpathSync(f, p) ELSE resolve(p)

\* fs.unlinkSync(p): removes the entry itself, a link is not followed
unlinkSync(f, p) == [e \in DOMAIN f \ {resolve(p)} |-> f[e]]

\* the file system with entry e holding node n
withEntry(f, e, n) == [x \in DOMAIN f \cup {e} |-> IF x = e THEN n ELSE f[x]]

(***************************************************************************)
(* glob(pattern, {nodir: true}).  A pattern is a path whose last segment    *)
(* may be '*', which matches every name that does not start with a dot.     *)
(***************************************************************************)
STAR == <<"*">>

\* stands for a pattern longer than the pattern length glob accepts
OverlongPattern == << <<"*", "*", "*">> >>

\* glob throws on this pattern
globThrows(pattern) == pattern = OverlongPattern

\* the set of paths the pattern matches
globMatches(f, pattern) ==
    LET q == normalize(pattern)
    IN  IF q = <<>> THEN {}
        ELSE IF basename(q) = STAR
             THEN {e \in DOMAIN f : /\ Len(e) = Len(q)
                                    /\ SubSeq(e, 1, Len(e) - 1) = SubSeq(q, 1, Len(q) - 1)
                                    /\ basename(e)[1] # "."}
             ELSE IF q \in DOMAIN f THEN {q} ELSE {}

\* the orders in which glob may return a set of matches
Orderings(S) ==
    {o \in [1..Cardinality(S) -> S] : \A j, k \in 1..Cardinality(S) : j # k => o[j] # o[k]}

(***************************************************************************)
(* The pure steps of executeMerge (merge.ts).                               *)
(***************************************************************************)
\* Array.prototype.sort with compareSortKeys: a stable sort, here by
\* insertion of each descriptor after the last one that is not greater
RECURSIVE sortDescriptors(_)
sortDescriptors(ds) ==
    IF ds = <<>> THEN <<>>
    ELSE LET init   == sortDescriptors(SubSeq(ds, 1, Len(ds) - 1))
             d      == ds[Len(ds)]
             notGt  == {k \in 1..Len(init) : compareSortKeys(init[k].key, d.key) <= 0}
             pos    == IF notGt = {} THEN 0
                       ELSE CHOOSE k \in notGt : \A j \in notGt : j <= k
         IN  SubSeq(init, 1, pos) \o <<d>> \o SubSeq(init, pos + 1, Len(init))

\* the deduplication loop: a path is pushed unless it equals the last one pushed
RECURSIVE deduplicate(_)
deduplicate(ds) ==
    IF ds = <<>> THEN <<>>
    ELSE LET init == deduplicate(SubSeq(ds, 1, Len(ds) - 1))
             path == ds[Len(ds)].path
         IN  IF init = <<>> \/ init[Len(init)] # path THEN Append(init, path)
             ELSE init

\* extractNestedDayDirectory that takes the directory above the day directory
extractNestedDayDirectory_parent(filepath) ==
    LET date == extractDateFromPath(filepath)
    IN  IF date = <<>> THEN <<>>
        ELSE <<[dir |-> dirname(dirname(filepath)), date |-> date[1]]>>

\* extractNestedDayDirectory(filepath): <<>> (null) or <<[dir, date]>>
extractNestedDayDirectory(filepath) ==
    LET date == extractDateFromPath(filepath)
    IN  IF date = <<>> THEN <<>>
        ELSE <<[dir |-> dirname(filepath), date |-> date[1]]>>

\* detectCommonNestedDirectory(paths): <<>> (null) or <<[dir, date]>>
detectCommonNestedDirectory(paths) ==
    IF paths = <<>> THEN <<>>
    ELSE IF \E k \in 1..Len(paths) : extractNestedDayDirectory(paths[k]) = <<>>
         THEN <<>>
         ELSE LET candidate == extractNestedDayDirectory(paths[1])[1]
              IN  IF \E k \in 1..Len(paths) :
                         LET info == extractNestedDayDirectory(paths[k])[1]
                         IN  info.dir # candidate.dir \/ info.date # candidate.date
                  THEN <<>>
                  ELSE <<candidate>>

\* determineOutputPath where a key without a date leaves the date
\* undetermined
determineOutputPath_allDated(ord, descs, req) ==
    IF req.output # <<>> THEN [error |-> "none", path |-> req.output]
    ELSE LET common == detectCommonNestedDirectory(ord)
             dated  == SelectSeq(descs, LAMBDA d : d.key.date # <<>>)
         IN  IF common # <<>>
             THEN [error |-> "none",
                   path  |-> join(common[1].dir, formatDateDashed(common[1].date) \o TXT)]
             ELSE IF \E k \in 1..Len(dated) : dated[k].key.date # dated[1].key.date
                  THEN [error |-> "MixedDates", path |-> <<>>]
                  ELSE IF dated # <<>> /\ Len(dated) = Len(descs)
                       THEN [error |-> "none",
                             path  |-> join(dirname(ord[1]),
                                            formatDateDashed(dated[1].key.date[1]) \o TXT)]
                       ELSE [error |-> "UndeterminedDate", path |-> <<>>]

\* determineOutputPath that infers a path first and falls back on the
\* explicit output only when no date can be determined
determineOutputPath_inferFirst(ord, descs, req) ==
    LET common == detectCommonNestedDirectory(ord)
        dated  == SelectSeq(descs, LAMBDA d : d.key.date # <<>>)
    IN  IF common # <<>>
        THEN [error |-> "none",
              path  |-> join(common[1].dir, formatDateDashed(common[1].date) \o TXT)]
        ELSE IF \E k \in 1..Len(dated) : dated[k].key.date # dated[1].key.date
             THEN [error |-> "MixedDates", path |-> <<>>]
             ELSE IF dated # <<>>
                  THEN [error |-> "none",
                        path  |-> join(dirname(ord[1]),
                                       formatDateDashed(dated[1].key.date[1]) \o TXT)]
                  ELSE IF req.output # <<>>
                       THEN [error |-> "none", path |-> req.output]
                       ELSE [error |-> "UndeterminedDate", path |-> <<>>]

\* determineOutputPath(ordered, descriptors, request):
\* [error |-> "none", path] or the error it throws
determineOutputPath(ord, descs, req) ==
    IF req.output # <<>> THEN [error |-> "none", path |-> req.output]
    ELSE LET common == detectCommonNestedDirectory(ord)
             dated  == SelectSeq(descs, LAMBDA d : d.key.date # <<>>)
         IN  IF common # <<>>
             THEN [error |-> "none",
                   path  |-> join(common[1].dir, formatDateDashed(common[1].date) \o TXT)]
             ELSE IF \E k \in 1..Len(dated) : dated[k].key.date # dated[1].key.date
                  THEN [error |-> "MixedDates", path |-> <<>>]
                  ELSE IF dated # <<>>
                       THEN LET baseDir == IF Len(ord) > 0 THEN dirname(ord[1])
                                           ELSE <<DOT>>
                            IN  [error |-> "none",
                                 path  |-> join(baseDir,
                                                formatDateDashed(dated[1].key.date[1]) \o TXT)]
                       ELSE [error |-> "UndeterminedDate", path |-> <<>>]

\* ordered.filter(...): the paths whose canonical form is not the output's
filterSources(f, ord, outCanonical) ==
    SelectSeq(ord, LAMBDA filepath : canonical(f, filepath) # outCanonical)

\* the temp file of atomicWrite, in the directory of filePath
tempPath(filePath) == join(dirname(filePath), <<".", "t", "m", "p">>)

(***************************************************************************)
(* The files and the requests the model draws from.                         *)
(***************************************************************************)
Day1 == DateOnly(2025, 1, 27)
Day2 == DateOnly(2025, 1, 28)

flatDir  == <<"f", "l", "a", "t">>
inboxDir == <<"i", "n", "b", "o", "x">>
linksDir == <<"l", "i", "n", "k", "s">>
outDir   == <<"o", "u", "t">>
noDir    == <<"n", "o", "n", "e">>

\* 2025/01/27/061901-111901.txt and 2025/01/27/112256-162256.txt
SegA == nestedDir(Day1) \o <<nestedName(Time(6, 19, 1), Time(11, 19, 1))>>
SegB == nestedDir(Day1) \o <<nestedName(Time(11, 22, 56), Time(16, 22, 56))>>
\* flat/20250127_061901_111901.txt: the sort key of SegA
Flat1 == <<flatDir, flatName(Day1, Time(6, 19, 1), Time(11, 19, 1))>>
\* flat/20250128_010000_020000.txt: another day
Flat2 == <<flatDir, flatName(Day2, Time(1, 0, 0), Time(2, 0, 0))>>
\* inbox/050000-060000.txt: a nested name in a directory without a date
Undated == <<inboxDir, nestedName(Time(5, 0, 0), Time(6, 0, 0))>>
\* inbox/notes.txt: not a segment name
Notes == <<inboxDir, <<"n", "o", "t", "e", "s">> \o TXT>>
\* out/merged.txt, and links/120000-130000.txt, a symbolic link to it
Merged == <<outDir, <<"m", "e", "r", "g", "e", "d">> \o TXT>>
Alias == <<linksDir, nestedName(Time(12, 0, 0), Time(13, 0, 0))>>
\* 2025/01/27/./061901-111901.txt: another spelling of SegA
SegADot == nestedDir(Day1) \o <<DOT, basename(SegA)>>

\* the texts of length at most n over a letter and the newline
RECURSIVE Texts(_)
Texts(n) ==
    IF n = 0 THEN {<<>>}
    ELSE Texts(n - 1) \cup {Append(t, c) : t \in {x \in Texts(n - 1) : Len(x) = n - 1},
                                          c \in {"a", NL}}

\* small files with a text drawn freely
SmallFiles == {File(t, Len(t)) : t \in Texts(MaxLen)}

\* files at and just above the size limit
LargeFiles == {File(<<"a">>, MAX_FILE_SIZE), File(<<"a">>, MAX_FILE_SIZE + 1)}

FileSystem(a, b) ==
    (SegA :> a) @@ (SegB :> b)
    @@ (Flat1 :> File(<<"f">>, 1))
    @@ (Flat2 :> File(<<"g", NL>>, 2))
    @@ (Undated :> File(<<"u", NL>>, 2))
    @@ (Notes :> File(<<"n">>, 1))
    @@ (Merged :> File(<<"o", NL>>, 2))
    @@ (Alias :> Link(Merged))

\* 2025/01/27/2025-01-27.txt: the output an earlier merge of 2025/01/27/*
\* inferred
InferredOutput == nestedDir(Day1) \o <<formatDateDashed(Day1) \o TXT>>

\* the file system after that merge, run with noDelete
AfterMerge ==
    FileSystem(File(<<"a">>, 1), File(<<"a">>, 1))
        @@ (InferredOutput :> File(<<"a", NL, "a">>, 3))

\* 2025/01/27/20250128_010000_020000.txt: a flat name of the next day in the
\* directory of a day
FlatInDay == nestedDir(Day1) \o <<flatName(Day2, Time(1, 0, 0), Time(2, 0, 0))>>

\* the file system with that file among the segments of the day
WithFlatInDay ==
    FileSystem(File(<<"a">>, 1), File(<<"a">>, 1)) @@ (FlatInDay :> File(<<"g", NL>>, 2))

FileSystems ==
    {FileSystem(a, b) : a \in {File(<<"a">>, 1)} \cup LargeFiles, b \in SmallFiles}
        \cup {AfterMerge, WithFlatInDay}

Patterns ==
    { nestedDir(Day1) \o <<STAR>>, <<flatDir, STAR>>, <<inboxDir, STAR>>,
      <<noDir, STAR>>, SegA, Undated, Alias, OverlongPattern }

\* a path passed twice, a pattern that matches an equal key in between
RepeatedPath == <<SegA, <<flatDir, STAR>>, SegA>>

PatternLists ==
    UNION {[1..n -> Patterns] : n \in 1..MaxPatterns} \cup {RepeatedPath}

Outputs == {<<>>, Merged, SegA, SegADot}

\* MergeRequest
Requests ==
    [patterns : PatternLists, output : Outputs, noDelete : BOOLEAN]

NoError == [kind |-> "none", arg |-> <<>>]

Error(kind, arg) == [kind |-> kind, arg |-> arg]

(***************************************************************************)
(* executeMerge(request) as a state machine.                                *)
(***************************************************************************)
VARIABLES
    fs,              \* the file system
    request,         \* the MergeRequest
    pc,              \* the position in executeMerge
    idx,             \* the index of the running loop
    collected,       \* the matches of the patterns expanded so far
    descriptors,     \* the sorted {path, key} descriptors
    ordered,         \* the deduplicated paths
    outputPath,      \* the output path, <<>> before it is determined
    outputCanonical, \* the canonical form of the output path
    sourcesToMerge,  \* the paths to read and delete
    merged,          \* the buffer of writeMergedFile
    error,           \* the error thrown, NoError while none
    fs0,             \* history: the file system when executeMerge was called
    expanded,        \* history: the number of matches of each glob call
    reads,           \* history: the paths read
    deleted          \* history: the paths unlinked

\* adjustTranscript(contents, baseTime, effectiveDate)
VARIABLES
    contents,          \* the text of the transcript
    baseTime,          \* the Time added to every timestamp
    effectiveDate,     \* the DateOnly of the recording
    apc,               \* the position in adjustTranscript
    lines,             \* contents.split('\n'), the empty last piece popped
    adjustedLines,     \* the lines pushed so far
    firstTimestamp,    \* <<>> (null) or <<DateTime>>
    lastTimestamp,     \* <<>> (null) or <<DateTime>>
    previousTimestamp, \* <<>> (null) or <<DateTime>>
    hasOutOfOrder,     \* the flag of the pass
    transcript,        \* <<>> or <<TranscriptUpdate>>, what the call returned
    thrown,            \* the error adjustTranscript threw, NoError while none
    adjustedAt         \* history: per line pushed, <<>> or <<its adjusted DateTime>>

\* getSortKey(filepath)
VARIABLES
    keyPath,         \* the path given to getSortKey
    kpc,             \* the position in getSortKey
    keyResult,       \* <<>> or <<FileSortKey>>, what the call returned
    keyError         \* the error getSortKey threw, NoError while none

\* formatTime(parseTime(value))
VARIABLES
    timeString,      \* the string given to parseTime
    rpc,             \* the position: "call", "parsed", "null", "formatted"
    parsedTime,      \* <<>> (null) or <<Time>>, what parseTime returned
    formatted        \* what formatTime returned, <<>> before it is called

\* executeUpdate(request), one call after the other
VARIABLES
    pending,          \* the UpdateRequests of the calls still to come
    updateRequest,    \* the UpdateRequest of the running call
    upc,              \* the position in executeUpdate
    updateOutputPath, \* its outputPath, <<>> before it is resolved
    updateError,      \* the error thrown, NoError while none
    dirs,             \* the directories that exist
    fsAtCall,         \* history: the file system when executeUpdate was called
    dirsAtCall,       \* history: the directories when executeUpdate was called
    written           \* history: per call that returned, its path and timestamps

mergeVars == <<fs, request, pc, idx, collected, descriptors, ordered, outputPath,
               outputCanonical, sourcesToMerge, merged, error, fs0, expanded, reads,
               deleted>>

transcriptVars == <<contents, baseTime, effectiveDate, apc, lines, adjustedLines,
                    firstTimestamp, lastTimestamp, previousTimestamp, hasOutOfOrder,
                    transcript, thrown, adjustedAt>>

sortKeyVars == <<keyPath, kpc, keyResult, keyError>>

roundTripVars == <<timeString, rpc, parsedTime, formatted>>

updateVars == <<pending, updateRequest, upc, updateOutputPath, updateError, dirs,
                fsAtCall, dirsAtCall, written>>

vars == <<mergeVars, transcriptVars, sortKeyVars, roundTripVars, updateVars>>

\* no executeMerge is running
MergeIdle ==
    /\ fs = <<>>
    /\ request = [patterns |-> <<>>, output |-> <<>>, noDelete |-> FALSE]
    /\ pc = "idle"
    /\ idx = 1
    /\ collected = <<>>
    /\ descriptors = <<>>
    /\ ordered = <<>>
    /\ outputPath = <<>>
    /\ outputCanonical = <<>>
    /\ sourcesToMerge = <<>>
    /\ merged = <<>>
    /\ error = NoError
    /\ fs0 = <<>>
    /\ expanded = <<>>
    /\ reads = <<>>
    /\ deleted = <<>>

\* no adjustTranscript is running
TranscriptIdle ==
    /\ contents = <<>>
    /\ baseTime = Time(0, 0, 0)
    /\ effectiveDate = Day1
    /\ apc = "idle"
    /\ lines = <<>>
    /\ adjustedLines = <<>>
    /\ firstTimestamp = <<>>
    /\ lastTimestamp = <<>>
    /\ previousTimestamp = <<>>
    /\ hasOutOfOrder = FALSE
    /\ transcript = <<>>
    /\ thrown = NoError
    /\ adjustedAt = <<>>

\* no getSortKey is running
SortKeyIdle ==
    /\ keyPath = <<>>
    /\ kpc = "idle"
    /\ keyResult = <<>>
    /\ keyError = NoError

\* no parseTime is running
RoundTripIdle ==
    /\ timeString = <<>>
    /\ rpc = "idle"
    /\ parsedTime = <<>>
    /\ formatted = <<>>

\* no executeUpdate is running or to come
UpdateIdle ==
    /\ pending = <<>>
    /\ updateRequest = <<>>
    /\ upc = "idle"
    /\ updateOutputPath = <<>>
    /\ updateError = NoError
    /\ dirs = {}
    /\ fsAtCall = <<>>
    /\ dirsAtCall = {}
    /\ written = <<>>

Init ==
    /\ fs \in FileSystems
    /\ request \in Requests
    /\ pc = "expand"
    /\ idx = 1
    /\ collected = <<>>
    /\ descriptors = <<>>
    /\ ordered = <<>>
    /\ outputPath = <<>>
    /\ outputCanonical = <<>>
    /\ sourcesToMerge = <<>>
    /\ merged = <<>>
    /\ error = NoError
    /\ fs0 = fs
    /\ expanded = <<>>
    /\ reads = <<>>
    /\ deleted = <<>>
    /\ TranscriptIdle
    /\ SortKeyIdle
    /\ RoundTripIdle
    /\ UpdateIdle

\* throw: the call ends with the error
Throw(kind, arg) ==
    /\ pc' = "failed"
    /\ error' = Error(kind, arg)

\* the expansion loop with the zero-match check on the aggregate only
Expand_aggregate ==
    /\ pc = "expand"
    /\ LET pattern == request.patterns[idx]
       IN  IF globThrows(pattern)
           THEN /\ Throw("InvalidGlobPattern", pattern)
                /\ UNCHANGED <<idx, collected, expanded>>
           ELSE \E matches \in Orderings(globMatches(fs, pattern)) :
                    /\ expanded' = Append(expanded, Len(matches))
                    /\ IF idx = Len(request.patterns) /\ Len(collected \o matches) = 0
                       THEN /\ Throw("NoMatches", pattern)
                            /\ UNCHANGED <<idx, collected>>
                       ELSE /\ collected' = collected \o matches
                            /\ idx' = IF idx < Len(request.patterns) THEN idx + 1 ELSE 1
                            /\ pc' = IF idx < Len(request.patterns) THEN "expand" ELSE "size"
                            /\ error' = error
    /\ UNCHANGED <<fs, request, descriptors, ordered, outputPath, outputCanonical,
                   sourcesToMerge, merged, fs0, reads, deleted>>
    /\ UNCHANGED <<transcriptVars, sortKeyVars, roundTripVars, updateVars>>

\* one iteration of the expansion loop
Expand ==
    /\ pc = "expand"
    /\ LET pattern == request.patterns[idx]
       IN  IF globThrows(pattern)
           THEN /\ Throw("InvalidGlobPattern", pattern)
                /\ UNCHANGED <<idx, collected, expanded>>
           ELSE \E matches \in Orderings(globMatches(fs, pattern)) :
                    /\ expanded' = Append(expanded, Len(matches))
                    /\ IF Len(matches) = 0
                       THEN /\ Throw("NoMatches", pattern)
                            /\ UNCHANGED <<idx, collected>>
                       ELSE /\ collected' = collected \o matches
                            /\ idx' = IF idx < Len(request.patterns) THEN idx + 1 ELSE 1
                            /\ pc' = IF idx < Len(request.patterns) THEN "expand" ELSE "size"
                            /\ error' = error
    /\ UNCHANGED <<fs, request, descriptors, ordered, outputPath, outputCanonical,
                   sourcesToMerge, merged, fs0, reads, deleted>>
    /\ UNCHANGED <<transcriptVars, sortKeyVars, roundTripVars, updateVars>>

\* the size check with >= in place of >
tooLarge_inclusive(size) == size >= MAX_FILE_SIZE

\* stats.size > MAX_FILE_SIZE
tooLarge(size) == size > MAX_FILE_SIZE

\* the size check loop
CheckSizes ==
    /\ pc = "size"
    /\ LET bad == {k \in 1..Len(collected) :
                       \/ ~existsSync(fs, collected[k])
                       \/ tooLarge(statSize(fs, collected[k]))}
       IN  IF bad = {} THEN pc' = "sort" /\ error' = error
           ELSE LET k == CHOOSE j \in bad : \A m \in bad : j <= m
                IN  IF ~existsSync(fs, collected[k])
                    THEN Throw("IOError", collected[k])
                    ELSE Throw("FileTooLarge", collected[k])
    /\ UNCHANGED <<fs, request, idx, collected, descriptors, ordered, outputPath,
                   outputCanonical, sourcesToMerge, merged, fs0, expanded, reads,
                   deleted>>
    /\ UNCHANGED <<transcriptVars, sortKeyVars, roundTripVars, updateVars>>

\* key extraction that runs after the explicit output file has been opened
\* for writing, and so truncated
ExtractAndSort_afterOpen ==
    /\ pc = "sort"
    /\ fs' = IF request.output = <<>> THEN fs
             ELSE withEntry(fs, resolve(request.output), File(<<>>, 0))
    /\ LET bad == {k \in 1..Len(collected) : getSortKey(collected[k]) = <<>>}
       IN  IF bad # {}
           THEN /\ Throw("UnrecognizedFilename",
                         collected[CHOOSE j \in bad : \A m \in bad : j <= m])
                /\ UNCHANGED <<descriptors, ordered>>
           ELSE /\ descriptors' =
                       sortDescriptors([k \in 1..Len(collected) |->
                           [path |-> collected[k], key |-> getSortKey(collected[k])[1]]])
                /\ ordered' = deduplicate(descriptors')
                /\ pc' = "output"
                /\ error' = error
    /\ UNCHANGED <<request, idx, collected, outputPath, outputCanonical,
                   sourcesToMerge, merged, fs0, expanded, reads, deleted>>
    /\ UNCHANGED <<transcriptVars, sortKeyVars, roundTripVars, updateVars>>

\* key extraction, sort and deduplication
ExtractAndSort ==
    /\ pc = "sort"
    /\ LET bad == {k \in 1..Len(collected) : getSortKey(collected[k]) = <<>>}
       IN  IF bad # {}
           THEN /\ Throw("UnrecognizedFilename",
                         collected[CHOOSE j \in bad : \A m \in bad : j <= m])
                /\ UNCHANGED <<descriptors, ordered>>
           ELSE /\ descriptors' =
                       sortDescriptors([k \in 1..Len(collected) |->
                           [path |-> collected[k], key |-> getSortKey(collected[k])[1]]])
                /\ ordered' = deduplicate(descriptors')
                /\ pc' = "output"
                /\ error' = error
    /\ UNCHANGED <<fs, request, idx, collected, outputPath, outputCanonical,
                   sourcesToMerge, merged, fs0, expanded, reads, deleted>>
    /\ UNCHANGED <<transcriptVars, sortKeyVars, roundTripVars, updateVars>>

\* the output path, its canonical form and the sources to merge
DetermineOutput ==
    /\ pc = "output"
    /\ LET r == determineOutputPath(ordered, descriptors, request)
       IN  IF r.error # "none"
           THEN /\ Throw(r.error, <<>>)
                /\ UNCHANGED <<outputPath, outputCanonical, sourcesToMerge>>
           ELSE /\ outputPath' = r.path
                /\ outputCanonical' = canonical(fs, r.path)
                /\ sourcesToMerge' = filterSources(fs, ordered, outputCanonical')
                /\ pc' = "read"
                /\ error' = error
    /\ UNCHANGED <<fs, request, idx, collected, descriptors, ordered, merged, fs0,
                   expanded, reads, deleted>>
    /\ UNCHANGED <<transcriptVars, sortKeyVars, roundTripVars, updateVars>>

\* the loop body without the test i + 1 < files.length
appendSegment_afterLast(buffer, content, more) ==
    LET m == buffer \o content
    IN  IF ~endsWithNL(m) THEN m \o <<NL>> ELSE m

\* the body of the loop of writeMergedFile: the buffer after a segment,
\* more being i + 1 < files.length
appendSegment(buffer, content, more) ==
    LET m == buffer \o content
    IN  IF more /\ ~endsWithNL(m) THEN m \o <<NL>> ELSE m

\* the byte size of the buffer: the sizes of the segments read and one byte
\* for each separator
mergedSize(f, files, buffer) ==
    LET RECURSIVE sum(_)
        sum(k) == IF k = 0 THEN 0
                  ELSE sum(k - 1) + statSize(f, files[k])
                                  - Len(readFileSync(f, files[k]))
    IN  Len(buffer) + sum(Len(files))

\* writeMergedFile: one iteration of the read loop
ReadSegment ==
    /\ pc = "read"
    /\ idx <= Len(sourcesToMerge)
    /\ LET filepath == sourcesToMerge[idx]
       IN  IF ~existsSync(fs, filepath)
           THEN /\ Throw("IOError", filepath)
                /\ UNCHANGED <<idx, merged, reads>>
           ELSE /\ merged' = appendSegment(merged, readFileSync(fs, filepath),
                                           idx + 1 <= Len(sourcesToMerge))
                /\ reads' = Append(reads, filepath)
                /\ idx' = idx + 1
                /\ UNCHANGED <<pc, error>>
    /\ UNCHANGED <<fs, request, collected, descriptors, ordered, outputPath,
                   outputCanonical, sourcesToMerge, fs0, expanded, deleted>>
    /\ UNCHANGED <<transcriptVars, sortKeyVars, roundTripVars, updateVars>>

\* writeMergedFile: readFileSync fails (the file cannot be opened or read)
ReadFails ==
    /\ pc = "read"
    /\ idx <= Len(sourcesToMerge)
    /\ Throw("IOError", sourcesToMerge[idx])
    /\ UNCHANGED <<fs, request, idx, collected, descriptors, ordered, outputPath,
                   outputCanonical, sourcesToMerge, merged, fs0, expanded, reads,
                   deleted>>
    /\ UNCHANGED <<transcriptVars, sortKeyVars, roundTripVars, updateVars>>

\* atomicWrite: the buffer is written to the temp file
WriteTemp ==
    /\ pc = "read"
    /\ idx > Len(sourcesToMerge)
    /\ fs' = withEntry(fs, tempPath(outputPath),
                       File(merged, mergedSize(fs, sourcesToMerge, merged)))
    /\ pc' = "rename"
    /\ UNCHANGED <<request, idx, collected, descriptors, ordered, outputPath,
                   outputCanonical, sourcesToMerge, merged, error, fs0, expanded,
                   reads, deleted>>
    /\ UNCHANGED <<transcriptVars, sortKeyVars, roundTripVars, updateVars>>

\* atomicWrite: writeFileSync fails; the cleanup leaves no temp file
WriteFails ==
    /\ pc = "read"
    /\ idx > Len(sourcesToMerge)
    /\ Throw("IOError", tempPath(outputPath))
    /\ UNCHANGED <<fs, request, idx, collected, descriptors, ordered, outputPath,
                   outputCanonical, sourcesToMerge, merged, fs0, expanded, reads,
                   deleted>>
    /\ UNCHANGED <<transcriptVars, sortKeyVars, roundTripVars, updateVars>>

\* atomicWrite: the temp file is renamed onto the output path; then, unless
\* noDelete, deleteSources derives the canonical output path again
Rename ==
    /\ pc = "rename"
    /\ LET temp == tempPath(outputPath)
       IN  fs' = withEntry(unlinkSync(fs, temp), resolve(outputPath), fs[temp])
    /\ outputCanonical' = IF request.noDelete THEN outputCanonical
                          ELSE canonical(fs', outputPath)
    /\ pc' = IF request.noDelete THEN "done" ELSE "delete"
    /\ idx' = 1
    /\ UNCHANGED <<request, collected, descriptors, ordered, outputPath,
                   sourcesToMerge, merged, error, fs0, expanded, reads, deleted>>
    /\ UNCHANGED <<transcriptVars, sortKeyVars, roundTripVars, updateVars>>

\* atomicWrite fails on renameSync in a merge that unlinks its sources before
\* it writes the output
RenameFails_afterDelete ==
    /\ pc = "rename"
    /\ LET RECURSIVE gone(_, _)
           gone(f, k) == IF k = 0 THEN f
                         ELSE unlinkSync(gone(f, k - 1), sourcesToMerge[k])
       IN  fs' = unlinkSync(gone(fs, Len(sourcesToMerge)), tempPath(outputPath))
    /\ deleted' = deleted \o sourcesToMerge
    /\ Throw("IOError", outputPath)
    /\ UNCHANGED <<request, idx, collected, descriptors, ordered, outputPath,
                   outputCanonical, sourcesToMerge, merged, fs0, expanded, reads>>
    /\ UNCHANGED <<transcriptVars, sortKeyVars, roundTripVars, updateVars>>

\* atomicWrite: renameSync fails; the temp file is removed
RenameFails ==
    /\ pc = "rename"
    /\ fs' = unlinkSync(fs, tempPath(outputPath))
    /\ Throw("IOError", outputPath)
    /\ UNCHANGED <<request, idx, collected, descriptors, ordered, outputPath,
                   outputCanonical, sourcesToMerge, merged, fs0, expanded, reads,
                   deleted>>
    /\ UNCHANGED <<transcriptVars, sortKeyVars, roundTripVars, updateVars>>

\* the test of deleteSources with === in place of !==
shouldDelete_inverted(f, filepath, outCanonical) == canonical(f, filepath) = outCanonical

\* deleteSources: the source is unlinked unless it is the output file
shouldDelete(f, filepath, outCanonical) == canonical(f, filepath) # outCanonical

\* deleteSources: one iteration of the loop
DeleteSource ==
    /\ pc = "delete"
    /\ idx <= Len(sourcesToMerge)
    /\ LET filepath == sourcesToMerge[idx]
       IN  IF ~shouldDelete(fs, filepath, outputCanonical)
           THEN /\ idx' = idx + 1
                /\ UNCHANGED <<fs, pc, error, deleted>>
           ELSE IF resolve(filepath) \notin DOMAIN fs
                THEN /\ Throw("IOError", filepath)
                     /\ UNCHANGED <<fs, idx, deleted>>
                ELSE /\ fs' = unlinkSync(fs, filepath)
                     /\ deleted' = Append(deleted, filepath)
                     /\ idx' = idx + 1
                     /\ UNCHANGED <<pc, error>>
    /\ UNCHANGED <<request, collected, descriptors, ordered, outputPath,
                   outputCanonical, sourcesToMerge, merged, fs0, expanded, reads>>
    /\ UNCHANGED <<transcriptVars, sortKeyVars, roundTripVars, updateVars>>

\* deleteSources: unlinkSync fails
DeleteFails ==
    /\ pc = "delete"
    /\ idx <= Len(sourcesToMerge)
    /\ shouldDelete(fs, sourcesToMerge[idx], outputCanonical)
    /\ Throw("IOError", sourcesToMerge[idx])
    /\ UNCHANGED <<fs, request, idx, collected, descriptors, ordered, outputPath,
                   outputCanonical, sourcesToMerge, merged, fs0, expanded, reads,
                   deleted>>
    /\ UNCHANGED <<transcriptVars, sortKeyVars, roundTripVars, updateVars>>

\* executeMerge returns {files: sourcesToMerge, outputPath}
Return ==
    /\ pc = "delete"
    /\ idx > Len(sourcesToMerge)
    /\ pc' = "done"
    /\ UNCHANGED <<fs, request, idx, collected, descriptors, ordered, outputPath,
                   outputCanonical, sourcesToMerge, merged, error, fs0, expanded,
                   reads, deleted>>
    /\ UNCHANGED <<transcriptVars, sortKeyVars, roundTripVars, updateVars>>

Next ==
    \/ Expand
    \/ CheckSizes
    \/ ExtractAndSort
    \/ DetermineOutput
    \/ ReadSegment
    \/ ReadFails
    \/ WriteTemp
    \/ WriteFails
    \/ Rename
    \/ RenameFails
    \/ DeleteSource
    \/ DeleteFails
    \/ Return

Spec == Init /\ [][Next]_vars

(***************************************************************************)
(* getSortKey(filepath) on its own: one call on a path drawn from the names *)
(* built of date and time fields, well formed and not.                      *)
(***************************************************************************)
\* six-character fields: times in range, times out of range (hour, minute,
\* second), and a field with a letter; a five-digit field
TimeFields ==
    { <<"0", "6", "1", "9", "0", "1">>, <<"2", "3", "5", "9", "5", "9">>,
      <<"2", "4", "0", "0", "0", "0">>, <<"0", "0", "6", "0", "0", "0">>,
      <<"0", "0", "0", "0", "6", "0">>, <<"0", "6", "1", "9", "0", "a">>,
      <<"0", "6", "1", "9", "0">> }

\* date fields: a date, month 13, and seven digits
DateFields ==
    { <<"2", "0", "2", "5", "0", "1", "2", "7">>,
      <<"2", "0", "2", "5", "1", "3", "2", "7">>,
      <<"2", "0", "2", "5", "0", "1", "2">> }

\* names without extension: nested, flat, and some of other shapes
BareNames ==
    {t \o <<"-">> \o u : t \in TimeFields, u \in TimeFields}
        \cup {d \o <<"_">> \o t \o <<"_">> \o u :
                  d \in DateFields, t \in TimeFields, u \in TimeFields}
        \cup {d \o <<"_">> \o t : d \in DateFields, t \in TimeFields}
        \cup {<<"n", "o", "t", "e", "s">>, formatDateDashed(Day1)}

\* the paths given to getSortKey: in a day directory and in a plain one,
\* with the extension .txt, and in the plain one without extension
\* directories of other shapes: month 13, day 32, month 00, a two-digit
\* year, two segments only, a dashed day, a dashed day with month 13, and a
\* dashed day below a day directory
KeyDirs ==
    { <<String(2025), padStart2(13), padStart2(27)>>,
      <<String(2025), padStart2(1), padStart2(32)>>,
      <<String(2025), padStart2(0), padStart2(27)>>,
      <<String(25), padStart2(1), padStart2(27)>>,
      <<padStart2(1), padStart2(27)>>,
      <<formatDateDashed(Day1)>>,
      <<formatDateDashed(DateOnly(2025, 13, 27))>>,
      nestedDir(Day1) \o <<formatDateDashed(Day2)>> }

KeyPaths ==
    {nestedDir(Day1) \o <<n \o TXT>> : n \in BareNames}
        \cup {<<inboxDir, n \o TXT>> : n \in BareNames}
        \cup {<<inboxDir, n>> : n \in BareNames}
        \cup {d \o <<n \o TXT>> : d \in KeyDirs, n \in BareNames}

InitSortKey ==
    /\ keyPath \in KeyPaths
    /\ kpc = "call"
    /\ keyResult = <<>>
    /\ keyError = NoError
    /\ MergeIdle
    /\ TranscriptIdle
    /\ RoundTripIdle
    /\ UpdateIdle

\* getSortKey(keyPath): returns the key or throws UnrecognizedFilename
ExtractKey ==
    /\ kpc = "call"
    /\ LET key == getSortKey(keyPath)
       IN  IF key = <<>>
           THEN /\ kpc' = "thrown"
                /\ keyError' = Error("UnrecognizedFilename", keyPath)
                /\ UNCHANGED keyResult
           ELSE /\ kpc' = "returned"
                /\ keyResult' = key
                /\ UNCHANGED keyError
    /\ UNCHANGED <<keyPath, mergeVars, transcriptVars, roundTripVars, updateVars>>

NextSortKey == ExtractKey

SpecSortKey == InitSortKey /\ [][NextSortKey]_vars

(***************************************************************************)
(* adjustTranscript(contents, baseTime, effectiveDate) as a state machine.  *)
(***************************************************************************)
\* the lines a transcript is made of: timestamp lines (one of exactly 8
\* characters), an hour out of range, wrong punctuation, 7 characters, and
\* the empty line
TranscriptLines ==
    { <<"0", "0", ":", "0", "0", ":", "0", "1", " ", "A">>,
      <<"0", "0", ":", "0", "0", ":", "0", "5">>,
      <<"0", "1", ":", "0", "0", ":", "0", "0", " ", "B">>,
      <<"2", "4", ":", "0", "0", ":", "0", "0", " ", "x">>,
      <<"0", "0", "-", "0", "0", "-", "0", "1", " ", "x">>,
      <<"0", ":", "0", "0", ":", "0", "1">>,
      <<>> }

\* the lists of at most n lines
RECURSIVE LineLists(_)
LineLists(n) ==
    IF n = 0 THEN {<<>>}
    ELSE LineLists(n - 1)
             \cup {Append(ls, l) : ls \in {x \in LineLists(n - 1) : Len(x) = n - 1},
                                   l \in TranscriptLines}

\* the transcripts: lines joined by newlines, with and without a last newline
Contents ==
    {joinLines(ls) \o nl : ls \in LineLists(MaxLines) \ {<<>>}, nl \in {<<>>, <<NL>>}}

\* base times and dates: the case of the tests, and recordings that cross
\* midnight at the end of a year, of February in leap and other years, and
\* in a year below 100
BaseInputs ==
    { [time |-> Time(18, 1, 12),  date |-> DateOnly(2024, 12, 25)],
      [time |-> Time(23, 30, 0),  date |-> DateOnly(2024, 12, 31)],
      [time |-> Time(23, 30, 0),  date |-> DateOnly(2024, 2, 28)],
      [time |-> Time(23, 30, 0),  date |-> DateOnly(2023, 2, 28)],
      [time |-> Time(23, 59, 59), date |-> DateOnly(1900, 2, 28)],
      [time |-> Time(23, 30, 0),  date |-> DateOnly(99, 12, 31)] }

InitAdjust ==
    /\ contents \in Contents
    /\ \E b \in BaseInputs : baseTime = b.time /\ effectiveDate = b.date
    /\ apc = "split"
    /\ lines = <<>>
    /\ adjustedLines = <<>>
    /\ firstTimestamp = <<>>
    /\ lastTimestamp = <<>>
    /\ previousTimestamp = <<>>
    /\ hasOutOfOrder = FALSE
    /\ transcript = <<>>
    /\ thrown = NoError
    /\ adjustedAt = <<>>
    /\ MergeIdle
    /\ SortKeyIdle
    /\ RoundTripIdle
    /\ UpdateIdle

\* the split of the contents into lines
SplitContents ==
    /\ apc = "split"
    /\ lines' = splitLines(contents)
    /\ apc' = "loop"
    /\ UNCHANGED <<contents, baseTime, effectiveDate, adjustedLines, firstTimestamp,
                   lastTimestamp, previousTimestamp, hasOutOfOrder, transcript,
                   thrown, adjustedAt>>
    /\ UNCHANGED <<mergeVars, sortKeyVars, roundTripVars, updateVars>>

\* the loop body where lastTimestamp keeps the latest datetime seen
AdjustLine_latest ==
    /\ apc = "loop"
    /\ Len(adjustedLines) < Len(lines)
    /\ LET line   == lines[Len(adjustedLines) + 1]
           parsed == parseTimestampLine(line)
       IN  IF parsed # <<>>
           THEN LET adjusted == applyOffset(baseTime, effectiveDate, parsed[1].time)
                IN  /\ firstTimestamp' = IF firstTimestamp = <<>> THEN <<adjusted>>
                                         ELSE firstTimestamp
                    /\ hasOutOfOrder' =
                           (\/ hasOutOfOrder
                            \/ /\ previousTimestamp # <<>>
                               /\ compareDateTime(adjusted, previousTimestamp[1]) < 0)
                    /\ previousTimestamp' = <<adjusted>>
                    /\ lastTimestamp' =
                           IF /\ lastTimestamp # <<>>
                              /\ compareDateTime(adjusted, lastTimestamp[1]) < 0
                           THEN lastTimestamp ELSE <<adjusted>>
                    /\ adjustedLines' =
                           Append(adjustedLines, formatTime(adjusted) \o parsed[1].rest)
                    /\ adjustedAt' = Append(adjustedAt, <<adjusted>>)
           ELSE /\ adjustedLines' = Append(adjustedLines, line)
                /\ adjustedAt' = Append(adjustedAt, <<>>)
                /\ UNCHANGED <<firstTimestamp, lastTimestamp, previousTimestamp,
                               hasOutOfOrder>>
    /\ UNCHANGED <<contents, baseTime, effectiveDate, apc, lines, transcript, thrown>>
    /\ UNCHANGED <<mergeVars, sortKeyVars, roundTripVars, updateVars>>

\* one iteration of the loop over the lines
AdjustLine ==
    /\ apc = "loop"
    /\ Len(adjustedLines) < Len(lines)
    /\ LET line   == lines[Len(adjustedLines) + 1]
           parsed == parseTimestampLine(line)
       IN  IF parsed # <<>>
           THEN LET adjusted == applyOffset(baseTime, effectiveDate, parsed[1].time)
                IN  /\ firstTimestamp' = IF firstTimestamp = <<>> THEN <<adjusted>>
                                         ELSE firstTimestamp
                    /\ hasOutOfOrder' =
                           (\/ hasOutOfOrder
                            \/ /\ previousTimestamp # <<>>
                               /\ compareDateTime(adjusted, previousTimestamp[1]) < 0)
                    /\ previousTimestamp' = <<adjusted>>
                    /\ lastTimestamp' = <<adjusted>>
                    /\ adjustedLines' =
                           Append(adjustedLines, formatTime(adjusted) \o parsed[1].rest)
                    /\ adjustedAt' = Append(adjustedAt, <<adjusted>>)
           ELSE /\ adjustedLines' = Append(adjustedLines, line)
                /\ adjustedAt' = Append(adjustedAt, <<>>)
                /\ UNCHANGED <<firstTimestamp, lastTimestamp, previousTimestamp,
                               hasOutOfOrder>>
    /\ UNCHANGED <<contents, baseTime, effectiveDate, apc, lines, transcript, thrown>>
    /\ UNCHANGED <<mergeVars, sortKeyVars, roundTripVars, updateVars>>

\* no line had a timestamp: adjustTranscript throws NoTimestampsError
ThrowNoTimestamps ==
    /\ apc = "loop"
    /\ Len(adjustedLines) = Len(lines)
    /\ firstTimestamp = <<>>
    /\ apc' = "thrown"
    /\ thrown' = Error("NoTimestamps", <<>>)
    /\ UNCHANGED <<contents, baseTime, effectiveDate, lines, adjustedLines,
                   firstTimestamp, lastTimestamp, previousTimestamp, hasOutOfOrder,
                   transcript, adjustedAt>>
    /\ UNCHANGED <<mergeVars, sortKeyVars, roundTripVars, updateVars>>

\* adjustTranscript returns the TranscriptUpdate
ReturnUpdate ==
    /\ apc = "loop"
    /\ Len(adjustedLines) = Len(lines)
    /\ firstTimestamp # <<>>
    /\ transcript' =
           <<[body |-> makeBody(adjustedLines, endsWithNL(contents)),
              firstTimestamp |-> firstTimestamp[1],
              lastTimestamp |-> IF lastTimestamp # <<>> THEN lastTimestamp[1]
                                ELSE firstTimestamp[1],
              hasOutOfOrderTimestamps |-> hasOutOfOrder]>>
    /\ apc' = "returned"
    /\ UNCHANGED <<contents, baseTime, effectiveDate, lines, adjustedLines,
                   firstTimestamp, lastTimestamp, previousTimestamp, hasOutOfOrder,
                   thrown, adjustedAt>>
    /\ UNCHANGED <<mergeVars, sortKeyVars, roundTripVars, updateVars>>

NextAdjust ==
    \/ SplitContents
    \/ AdjustLine
    \/ ThrowNoTimestamps
    \/ ReturnUpdate

SpecAdjust == InitAdjust /\ [][NextAdjust]_vars

(***************************************************************************)
(* parseTime(value) and then formatTime on what it returned.               *)
(***************************************************************************)
\* two-character fields: hours up to 23 and above, minutes and seconds up to
\* 59 and above
HourFields ==
    {padStart2(h) : h \in {0, 1, 9, 10, 18, 19, 20, 23, 24, 29, 30, 99}}

MinuteFields == {padStart2(m) : m \in {0, 1, 59, 60}}

\* strings that are not two digits, a colon, two digits, a colon, two digits
Malformed ==
    { <<>>,
      <<"i", "n", "v", "a", "l", "i", "d">>,
      <<"1", ":", "2", ":", "3">>,
      <<"0", ":", "0", "0", ":", "0", "1">>,
      <<"0", "0", ":", "0", "0", ":", "0">>,
      <<"0", "0", ":", "0", "0", ":", "0", "0", "0">>,
      <<"0", "0", ":", "0", "0", ":", "0", "0", NL>>,
      <<" ", "0", "0", ":", "0", "0", ":", "0", "0">>,
      <<"0", "0", "-", "0", "0", "-", "0", "0">>,
      <<"0", "0", ":", "0", "0", ".", "0", "0">>,
      <<"0", "0", "0", "0", "0", "0", "0", "0">>,
      <<"0", "0", ":", "0", "0", ":", "0", "a">>,
      <<"a", "0", ":", "0", "0", ":", "0", "0">>,
      <<"0", "0", ":", " ", "0", ":", "0", "0">>,
      <<"-", "1", ":", "0", "0", ":", "0", "0">> }

TimeStrings ==
    {h \o <<":">> \o m \o <<":">> \o sec :
         h \in HourFields, m \in MinuteFields, sec \in MinuteFields}
        \cup Malformed

InitRoundTrip ==
    /\ timeString \in TimeStrings
    /\ rpc = "call"
    /\ parsedTime = <<>>
    /\ formatted = <<>>
    /\ MergeIdle
    /\ TranscriptIdle
    /\ SortKeyIdle
    /\ UpdateIdle

\* parseTime(timeString)
ParseTime ==
    /\ rpc = "call"
    /\ parsedTime' = parseTime(timeString)
    /\ rpc' = IF parsedTime' = <<>> THEN "null" ELSE "parsed"
    /\ UNCHANGED <<timeString, formatted>>
    /\ UNCHANGED <<mergeVars, transcriptVars, sortKeyVars, updateVars>>

\* formatTime of the Time parseTime returned
FormatTime ==
    /\ rpc = "parsed"
    /\ formatted' = formatTime(parsedTime[1])
    /\ rpc' = "formatted"
    /\ UNCHANGED <<timeString, parsedTime>>
    /\ UNCHANGED <<mergeVars, transcriptVars, sortKeyVars, updateVars>>

NextRoundTrip ==
    \/ ParseTime
    \/ FormatTime

SpecRoundTrip == InitRoundTrip /\ [][NextRoundTrip]_vars

(***************************************************************************)
(* executeUpdate(request) as a state machine: the calls of a session one    *)
(* after the other, and then a merge of the files they wrote.               *)
(***************************************************************************)
\* resolveOutputPath that files the transcript under the date of the first
\* timestamp
resolveOutputPath_firstDate(req, first, last) ==
    LET fileDate == DateOnly(first.year, first.month, first.day)
    IN  IF req.flattenOutput
        THEN join(<<>>, flatName(fileDate, first, last))
        ELSE normalize((IF req.outputDir = <<>> THEN <<DOT>> ELSE req.outputDir)
                           \o nestedDir(fileDate) \o <<nestedName(first, last)>>)

\* resolveOutputPath(request, first, last); the working directory is left
\* implicit, as in resolve
resolveOutputPath(req, first, last) ==
    LET fileDate == DateOnly(last.year, last.month, last.day)
    IN  IF req.flattenOutput
        THEN join(<<>>, flatName(fileDate, first, last))
        ELSE normalize((IF req.outputDir = <<>> THEN <<DOT>> ELSE req.outputDir)
                           \o nestedDir(fileDate) \o <<nestedName(first, last)>>)

\* the directories a file system implies: the proper prefixes of its entries
DirsOf(f) == UNION {{SubSeq(e, 1, k) : k \in 1..(Len(e) - 1)} : e \in DOMAIN f}

\* fs.mkdirSync(p, {recursive: true}): p and its ancestors exist afterwards
mkdirSync(d, p) == d \cup {SubSeq(normalize(p), 1, k) : k \in 1..Len(normalize(p))}

\* mkdirSync throws: p or an ancestor of it is a file
mkdirThrows(f, p) == \E k \in 1..Len(normalize(p)) : SubSeq(normalize(p), 1, k) \in DOMAIN f

\* inbox/rec.txt, the recording; inbox/no.txt does not exist
Recording == <<inboxDir, <<"r", "e", "c">> \o TXT>>
Absent == <<inboxDir, <<"n", "o">> \o TXT>>

\* the transcripts: the one of the test of the midnight overflow (two
\* timestamps an hour apart), its lines in the other order, one line without
\* a newline, and a text without timestamps
UpdateTexts ==
    LET start == <<"0", "0", ":", "0", "0", ":", "0", "1", " ", "A">>
        later == <<"0", "1", ":", "0", "0", ":", "0", "0", " ", "B">>
    IN  { joinLines(<<start, later>>) \o <<NL>>,
          joinLines(<<later, start>>) \o <<NL>>,
          start,
          <<"n", "o", "t", "e", "s", NL>> }

\* out/2024/12/26/233001-003000.txt, there before the session with another
\* text
Existing ==
    <<outDir>> \o nestedDir(DateOnly(2024, 12, 26))
        \o <<nestedName(Time(23, 30, 1), Time(0, 30, 0))>>

UpdateFileSystems ==
    {(Recording :> f) @@ (Existing :> File(<<"o", NL>>, 2)) :
         f \in {File(t, Len(t)) : t \in UpdateTexts}
                   \cup {File(<<"a">>, MAX_FILE_SIZE), File(<<"a">>, MAX_FILE_SIZE + 1)}}

\* start times and dates: a recording that crosses midnight, one of the
\* next morning, and one in a year below 1000
UpdateBases ==
    { [time |-> Time(23, 30, 0), date |-> DateOnly(2024, 12, 25)],
      [time |-> Time(8, 0, 0),   date |-> DateOnly(2024, 12, 26)],
      [time |-> Time(23, 30, 0), date |-> DateOnly(99, 12, 30)] }

\* UpdateRequest
UpdateRequests ==
    {[inputFile |-> i, outputDir |-> o, flattenOutput |-> f,
      startTime |-> b.time, date |-> b.date] :
         i \in {Recording, Absent}, o \in {<<>>, <<outDir>>}, f \in BOOLEAN,
         b \in UpdateBases}

\* the sessions: one call, or two calls in nested mode under out/
Sessions ==
    {<<r>> : r \in UpdateRequests}
        \cup {<<r, q>> : r, q \in {u \in UpdateRequests :
                                      /\ u.inputFile = Recording
                                      /\ u.outputDir = <<outDir>>
                                      /\ ~u.flattenOutput
                                      /\ u.date.year = 2024}}

\* the variables of executeMerge but the file system
mergeLocals == <<request, pc, idx, collected, descriptors, ordered, outputPath,
                 outputCanonical, sourcesToMerge, merged, error, fs0, expanded,
                 reads, deleted>>

InitUpdate ==
    /\ fs \in UpdateFileSystems
    /\ \E session \in Sessions :
           /\ updateRequest = Head(session)
           /\ pending = Tail(session)
    /\ upc = "stat"
    /\ updateOutputPath = <<>>
    /\ updateError = NoError
    /\ dirs = DirsOf(fs)
    /\ fsAtCall = fs
    /\ dirsAtCall = dirs
    /\ written = <<>>
    /\ request = [patterns |-> <<>>, output |-> <<>>, noDelete |-> FALSE]
    /\ pc = "idle"
    /\ idx = 1
    /\ collected = <<>>
    /\ descriptors = <<>>
    /\ ordered = <<>>
    /\ outputPath = <<>>
    /\ outputCanonical = <<>>
    /\ sourcesToMerge = <<>>
    /\ merged = <<>>
    /\ error = NoError
    /\ fs0 = <<>>
    /\ expanded = <<>>
    /\ reads = <<>>
    /\ deleted = <<>>
    /\ TranscriptIdle
    /\ SortKeyIdle
    /\ RoundTripIdle

\* throw: executeUpdate ends with the error
UpdateThrow(kind) ==
    /\ upc' = "failed"
    /\ updateError' = Error(kind, <<>>)

\* a statSync that is preceded by the creation of the directory of the day
StatInput_afterMkdir ==
    /\ upc = "stat"
    /\ dirs' = mkdirSync(dirs, updateRequest.outputDir \o nestedDir(updateRequest.date))
    /\ IF ~existsSync(fs, updateRequest.inputFile)
       THEN UpdateThrow("FileIOError")
       ELSE IF tooLarge(statSize(fs, updateRequest.inputFile))
            THEN UpdateThrow("FileTooLarge")
            ELSE upc' = "read" /\ UNCHANGED updateError
    /\ UNCHANGED <<pending, updateRequest, updateOutputPath, fsAtCall, dirsAtCall,
                   written>>
    /\ UNCHANGED <<fs, mergeLocals, transcriptVars, sortKeyVars, roundTripVars>>

\* statSync of the input and the check of its size
StatInput ==
    /\ upc = "stat"
    /\ IF ~existsSync(fs, updateRequest.inputFile)
       THEN UpdateThrow("FileIOError")
       ELSE IF tooLarge(statSize(fs, updateRequest.inputFile))
            THEN UpdateThrow("FileTooLarge")
            ELSE upc' = "read" /\ UNCHANGED updateError
    /\ UNCHANGED <<pending, updateRequest, updateOutputPath, dirs, fsAtCall,
                   dirsAtCall, written>>
    /\ UNCHANGED <<fs, mergeLocals, transcriptVars, sortKeyVars, roundTripVars>>

\* readFileSync of the input, and the call of adjustTranscript
ReadInput ==
    /\ upc = "read"
    /\ upc' = "adjust"
    /\ contents' = readFileSync(fs, updateRequest.inputFile)
    /\ baseTime' = updateRequest.startTime
    /\ effectiveDate' = updateRequest.date
    /\ apc' = "split"
    /\ lines' = <<>>
    /\ adjustedLines' = <<>>
    /\ firstTimestamp' = <<>>
    /\ lastTimestamp' = <<>>
    /\ previousTimestamp' = <<>>
    /\ hasOutOfOrder' = FALSE
    /\ transcript' = <<>>
    /\ thrown' = NoError
    /\ adjustedAt' = <<>>
    /\ UNCHANGED <<pending, updateRequest, updateOutputPath, updateError, dirs,
                   fsAtCall, dirsAtCall, written>>
    /\ UNCHANGED <<fs, mergeLocals, sortKeyVars, roundTripVars>>

\* readFileSync throws
ReadInputFails ==
    /\ upc = "read"
    /\ UpdateThrow("FileIOError")
    /\ UNCHANGED <<pending, updateRequest, updateOutputPath, dirs, fsAtCall,
                   dirsAtCall, written>>
    /\ UNCHANGED <<fs, mergeLocals, transcriptVars, sortKeyVars, roundTripVars>>

\* adjustTranscript threw: the error leaves executeUpdate as it is
PropagateThrown ==
    /\ upc = "adjust"
    /\ apc = "thrown"
    /\ upc' = "failed"
    /\ updateError' = thrown
    /\ UNCHANGED <<pending, updateRequest, updateOutputPath, dirs, fsAtCall,
                   dirsAtCall, written>>
    /\ UNCHANGED <<fs, mergeLocals, transcriptVars, sortKeyVars, roundTripVars>>

\* adjustTranscript returned: the output path is resolved
ResolveOutput ==
    /\ upc = "adjust"
    /\ apc = "returned"
    /\ updateOutputPath' = resolveOutputPath(updateRequest, transcript[1].firstTimestamp,
                                             transcript[1].lastTimestamp)
    /\ upc' = "mkdir"
    /\ UNCHANGED <<pending, updateRequest, updateError, dirs, fsAtCall, dirsAtCall,
                   written>>
    /\ UNCHANGED <<fs, mergeLocals, transcriptVars, sortKeyVars, roundTripVars>>

\* mkdirSync of the parent directory; it may throw
MakeDirs ==
    /\ upc = "mkdir"
    /\ \E fails \in BOOLEAN :
           IF fails \/ mkdirThrows(fs, dirname(updateOutputPath))
           THEN UpdateThrow("FileIOError") /\ UNCHANGED dirs
           ELSE /\ dirs' = mkdirSync(dirs, dirname(updateOutputPath))
                /\ upc' = "write"
                /\ UNCHANGED updateError
    /\ UNCHANGED <<pending, updateRequest, updateOutputPath, fsAtCall, dirsAtCall,
                   written>>
    /\ UNCHANGED <<fs, mergeLocals, transcriptVars, sortKeyVars, roundTripVars>>

\* atomicWrite: writeFileSync writes the body to the temp file
WriteTempFile ==
    /\ upc = "write"
    /\ fs' = withEntry(fs, tempPath(updateOutputPath),
                       File(transcript[1].body, Len(transcript[1].body)))
    /\ upc' = "rename"
    /\ UNCHANGED <<pending, updateRequest, updateOutputPath, updateError, dirs,
                   fsAtCall, dirsAtCall, written>>
    /\ UNCHANGED <<mergeLocals, transcriptVars, sortKeyVars, roundTripVars>>

\* a writeFileSync that writes to the output path itself, and throws
WriteTempFails_inPlace ==
    /\ upc = "write"
    /\ \E n \in 0..Len(transcript[1].body) :
           fs' = withEntry(fs, resolve(updateOutputPath),
                           File(SubSeq(transcript[1].body, 1, n), n))
    /\ upc' = "cleanup"
    /\ UNCHANGED <<pending, updateRequest, updateOutputPath, updateError, dirs,
                   fsAtCall, dirsAtCall, written>>
    /\ UNCHANGED <<mergeLocals, transcriptVars, sortKeyVars, roundTripVars>>

\* atomicWrite: writeFileSync throws, the temp file not created or holding
\* the first n characters of the body
WriteTempFails ==
    /\ upc = "write"
    /\ \/ fs' = fs
       \/ \E n \in 0..Len(transcript[1].body) :
              fs' = withEntry(fs, tempPath(updateOutputPath),
                              File(SubSeq(transcript[1].body, 1, n), n))
    /\ upc' = "cleanup"
    /\ UNCHANGED <<pending, updateRequest, updateOutputPath, updateError, dirs,
                   fsAtCall, dirsAtCall, written>>
    /\ UNCHANGED <<mergeLocals, transcriptVars, sortKeyVars, roundTripVars>>

\* atomicWrite: renameSync puts the temp file at the output path, and
\* executeUpdate returns
RenameTemp ==
    /\ upc = "rename"
    /\ LET temp == tempPath(updateOutputPath)
       IN  fs' = withEntry(unlinkSync(fs, temp), resolve(updateOutputPath), fs[temp])
    /\ upc' = "returned"
    /\ written' = Append(written, [path  |-> updateOutputPath,
                                   first |-> transcript[1].firstTimestamp,
                                   last  |-> transcript[1].lastTimestamp])
    /\ UNCHANGED <<pending, updateRequest, updateOutputPath, updateError, dirs,
                   fsAtCall, dirsAtCall>>
    /\ UNCHANGED <<mergeLocals, transcriptVars, sortKeyVars, roundTripVars>>

\* atomicWrite: renameSync throws
RenameTempFails ==
    /\ upc = "rename"
    /\ upc' = "cleanup"
    /\ UNCHANGED <<pending, updateRequest, updateOutputPath, updateError, dirs,
                   fsAtCall, dirsAtCall, written>>
    /\ UNCHANGED <<fs, mergeLocals, transcriptVars, sortKeyVars, roundTripVars>>

\* atomicWrite: the catch block unlinks the temp file (an error of the unlink
\* of a temp file that was never created is ignored) and throws again
CleanUp ==
    /\ upc = "cleanup"
    /\ fs' = unlinkSync(fs, tempPath(updateOutputPath))
    /\ UpdateThrow("FileIOError")
    /\ UNCHANGED <<pending, updateRequest, updateOutputPath, dirs, fsAtCall,
                   dirsAtCall, written>>
    /\ UNCHANGED <<mergeLocals, transcriptVars, sortKeyVars, roundTripVars>>

\* the next call of the session
NextCall ==
    /\ upc = "returned"
    /\ pending # <<>>
    /\ updateRequest' = Head(pending)
    /\ pending' = Tail(pending)
    /\ upc' = "stat"
    /\ updateOutputPath' = <<>>
    /\ fsAtCall' = fs
    /\ dirsAtCall' = dirs
    /\ apc' = "idle"
    /\ UNCHANGED <<updateError, dirs, written>>
    /\ UNCHANGED <<contents, baseTime, effectiveDate, lines, adjustedLines,
                   firstTimestamp, lastTimestamp, previousTimestamp, hasOutOfOrder,
                   transcript, thrown, adjustedAt>>
    /\ UNCHANGED <<fs, mergeLocals, sortKeyVars, roundTripVars>>

\* executeMerge is called on the two files of the session, in either order,
\* with an explicit output
StartMerge ==
    /\ upc = "returned"
    /\ pending = <<>>
    /\ Len(written) = 2
    /\ pc = "idle"
    /\ \E k \in 1..2, keep \in BOOLEAN :
           request' = [patterns |-> <<written[k].path, written[3 - k].path>>,
                       output |-> Merged, noDelete |-> keep]
    /\ pc' = "expand"
    /\ fs0' = fs
    /\ UNCHANGED <<fs, idx, collected, descriptors, ordered, outputPath,
                   outputCanonical, sourcesToMerge, merged, error, expanded, reads,
                   deleted>>
    /\ UNCHANGED <<transcriptVars, sortKeyVars, roundTripVars, updateVars>>

NextUpdate ==
    \/ StatInput
    \/ ReadInput
    \/ ReadInputFails
    \/ NextAdjust
    \/ PropagateThrown
    \/ ResolveOutput
    \/ MakeDirs
    \/ WriteTempFile
    \/ WriteTempFails
    \/ RenameTemp
    \/ RenameTempFails
    \/ CleanUp
    \/ NextCall
    \/ StartMerge
    \/ Next

SpecUpdate == InitUpdate /\ [][NextUpdate]_vars

(***************************************************************************)
(* Properties of executeMerge.                                              *)
(***************************************************************************)
\* the list of files is determined: executeMerge has passed the filter
FilesListed == pc \in {"read", "rename", "delete", "done"}

\* the output file has been written and renamed into place
OutputWritten == pc \in {"delete", "done"}

KeyOf(filepath) == getSortKey(filepath)[1]

HasDate(filepath) == KeyOf(filepath).date # <<>>

\* the start time of a key as one number, HHMMSS
StartOrdinal(k) == (k.startHours * 100 + k.startMinutes) * 100 + k.startSeconds

\* the date of a dated key as one number, YYYYMMDD
DateOrdinal(k) == (k.date[1].year * 100 + k.date[1].month) * 100 + k.date[1].day

\* the index of the first occurrence of x in the sequence q
FirstIndex(q, x) == CHOOSE k \in 1..Len(q) : q[k] = x /\ \A j \in 1..(k - 1) : q[j] # x

\* C1: the files executeMerge returns and concatenates are in non-decreasing
\* order of date (year, month, day) and then of start time (hours, minutes,
\* seconds), whatever the order of the patterns and of the glob results; two
\* paths whose keys are equal keep the order in which they were collected.
C1_SortedStable ==
    FilesListed =>
        \A j, k \in 1..Len(sourcesToMerge) :
            j < k =>
                LET p == sourcesToMerge[j]
                    q == sourcesToMerge[k]
                IN  /\ (HasDate(p) /\ HasDate(q)) =>
                           \/ DateOrdinal(KeyOf(p)) < DateOrdinal(KeyOf(q))
                           \/ /\ DateOrdinal(KeyOf(p)) = DateOrdinal(KeyOf(q))
                              /\ StartOrdinal(KeyOf(p)) <= StartOrdinal(KeyOf(q))
                    /\ (~HasDate(p) /\ ~HasDate(q)) =>
                           StartOrdinal(KeyOf(p)) <= StartOrdinal(KeyOf(q))
                    /\ (KeyOf(p) = KeyOf(q) /\ p # q) =>
                           ((FirstIndex(sourcesToMerge, p) < FirstIndex(sourcesToMerge, q))
                            <=> (FirstIndex(collected, p) < FirstIndex(collected, q)))

\* C1 witness: a merge has returned files that were collected in another
\* order, two of them with equal keys
C1_Witness ==
    /\ pc = "done"
    /\ sourcesToMerge # collected
    /\ \E j, k \in 1..Len(sourcesToMerge) :
           /\ j < k
           /\ sourcesToMerge[j] # sourcesToMerge[k]
           /\ KeyOf(sourcesToMerge[j]) = KeyOf(sourcesToMerge[k])
           /\ FirstIndex(collected, sourcesToMerge[j]) > 1

\* C2: in the merge order every file whose key has a date precedes every
\* file whose key has none, and the files without a date are ordered by
\* start time.
C2_DatedBeforeUndated ==
    FilesListed =>
        \A j, k \in 1..Len(sourcesToMerge) :
            j < k =>
                LET p == sourcesToMerge[j]
                    q == sourcesToMerge[k]
                IN  /\ ~(~HasDate(p) /\ HasDate(q))
                    /\ (~HasDate(p) /\ ~HasDate(q)) =>
                           StartOrdinal(KeyOf(p)) <= StartOrdinal(KeyOf(q))

\* the texts the sources held when executeMerge was called
Segments(files) == [k \in 1..Len(files) |-> readFileSync(fs0, files[k])]

\* the first n segments joined, a newline put before a segment (not the
\* first) exactly when the text before it does not end with one
RECURSIVE Joined(_, _)
Joined(segs, n) ==
    IF n = 0 THEN <<>>
    ELSE LET before == Joined(segs, n - 1)
         IN  (IF n > 1 /\ ~endsWithNL(before) THEN before \o <<NL>> ELSE before)
                 \o segs[n]

\* C3: the text written by merge is the texts of the sources to merge in
\* sorted order, where after each segment but the last exactly one newline
\* is added if and only if the text so far does not end with a newline, and
\* nothing is added after the last segment.
C3_Concatenation ==
    OutputWritten =>
        /\ resolve(outputPath) \in DOMAIN fs
        /\ fs[resolve(outputPath)].kind = "file"
        /\ fs[resolve(outputPath)].content
               = Joined(Segments(sourcesToMerge), Len(sourcesToMerge))

\* C3 witness: a merge of three or more segments has been written where one
\* boundary needed a newline and another did not
C3_Witness ==
    /\ pc = "done"
    /\ Len(sourcesToMerge) >= 3
    /\ \E j, k \in 1..(Len(sourcesToMerge) - 1) :
           /\ endsWithNL(Joined(Segments(sourcesToMerge), j))
           /\ ~endsWithNL(Joined(Segments(sourcesToMerge), k))

\* the path exists and holds what it held when executeMerge was called
Untouched(filepath) ==
    /\ existsSync(fs, filepath)
    /\ resolve(filepath) \in DOMAIN fs
    /\ fs[resolve(filepath)] = fs0[resolve(filepath)]
    /\ readFileSync(fs, filepath) = readFileSync(fs0, filepath)

\* C4 as claimed: after a successful executeMerge every path of the returned
\* list has been deleted when noDelete is false, and every input file still
\* exists with unchanged content when noDelete is true.
C4_Claimed ==
    pc = "done" =>
        /\ ~request.noDelete =>
               \A k \in 1..Len(sourcesToMerge) : resolve(sourcesToMerge[k]) \notin DOMAIN fs
        /\ request.noDelete =>
               \A k \in 1..Len(collected) : Untouched(collected[k])

\* C4 amended: after a successful executeMerge every path of the returned
\* list has been deleted when noDelete is false, and every path of the
\* returned list still exists with unchanged content when noDelete is true.
C4_DeletedIffNotKept ==
    pc = "done" =>
        /\ ~request.noDelete =>
               \A k \in 1..Len(sourcesToMerge) : resolve(sourcesToMerge[k]) \notin DOMAIN fs
        /\ request.noDelete =>
               \A k \in 1..Len(sourcesToMerge) : Untouched(sourcesToMerge[k])

\* C4 witness: a merge of two or more files has returned after deleting them
C4_Witness ==
    /\ pc = "done"
    /\ ~request.noDelete
    /\ Len(sourcesToMerge) >= 2
    /\ Len(deleted) = Len(sourcesToMerge)

\* C5: when the explicit output path equals one of the input paths, that
\* path is not deleted, it is read at most once, and its content is
\* reflected exactly once in the output: the output is the join of the
\* texts of all the deduplicated inputs, that path included.
C5_OutputAmongInputs ==
    (/\ pc = "done"
     /\ request.output # <<>>
     /\ \E k \in 1..Len(collected) : collected[k] = request.output) =>
        /\ \A k \in 1..Len(deleted) : deleted[k] # request.output
        /\ Cardinality({k \in 1..Len(reads) : reads[k] = request.output}) <= 1
        /\ readFileSync(fs, outputPath) = Joined(Segments(ordered), Len(ordered))

\* C6: merge never unlinks a path whose canonical form is the canonical form
\* of the output path, so once the output is written it exists and holds the
\* merged text until executeMerge returns, also when an input path is
\* another spelling or a symbolic link of the output path.
C6_OutputSurvives ==
    (OutputWritten /\ ~request.noDelete) =>
        /\ \A k \in 1..Len(deleted) :
               /\ resolve(deleted[k]) # resolve(outputPath)
               /\ resolve(deleted[k]) # outputCanonical
        /\ existsSync(fs, outputPath)
        /\ readFileSync(fs, outputPath) = merged

\* C6 witness: a merge has deleted its sources and returned, one input being
\* another spelling or a symbolic link of the output path
C6_Witness ==
    /\ pc = "done"
    /\ ~request.noDelete
    /\ deleted # <<>>
    /\ \E k \in 1..Len(collected) :
           /\ collected[k] # outputPath
           /\ canonical(fs0, collected[k]) = canonical(fs0, outputPath)

\* C7: when executeMerge fails with NoMatches, FileTooLarge,
\* UnrecognizedFilename, MixedDates or UndeterminedDate it has written and
\* deleted nothing: the file system is as it was before the call.
C7_FailsUntouched ==
    (/\ pc = "failed"
     /\ error.kind \in {"NoMatches", "FileTooLarge", "UnrecognizedFilename",
                        "MixedDates", "UndeterminedDate"}) =>
        /\ fs = fs0
        /\ deleted = <<>>

\* C7 witness: the merge failed on an unrecognized name among valid matches,
\* an explicit output file being there to overwrite
C7_Witness ==
    /\ pc = "failed"
    /\ error.kind = "UnrecognizedFilename"
    /\ request.output # <<>>
    /\ \E k \in 1..Len(collected) : getSortKey(collected[k]) # <<>>

\* C8: the zero-match check is per pattern: a pattern that expands to zero
\* files makes executeMerge fail with NoMatches naming it, the first such
\* pattern in pattern order, even when other patterns match files.
C8_NoMatchesPerPattern ==
    /\ \A k \in 1..Len(expanded) :
           (expanded[k] = 0 \/ globMatches(fs0, request.patterns[k]) = {}) =>
               /\ pc = "failed"
               /\ error = Error("NoMatches", request.patterns[k])
               /\ \A j \in 1..(k - 1) :
                      expanded[j] > 0 /\ globMatches(fs0, request.patterns[j]) # {}
    /\ error.kind = "NoMatches" =>
           /\ error.arg = request.patterns[Len(expanded)]
           /\ globMatches(fs0, error.arg) = {}

\* C8 witness: the merge failed with NoMatches after another pattern matched
C8_Witness ==
    /\ pc = "failed"
    /\ error.kind = "NoMatches"
    /\ collected # <<>>

\* the expansion and the size check are over
SizesChecked ==
    /\ pc \notin {"expand", "size"}
    /\ error.kind \notin {"NoMatches", "InvalidGlobPattern"}

\* C9: if a collected path is larger than 10 MiB executeMerge fails with
\* FileTooLarge naming the first such path before any content is read; a
\* file of exactly 10 MiB is accepted.
C9_SizeGuard ==
    /\ error.kind = "FileTooLarge" =>
           /\ statSize(fs0, error.arg) > 10 * 1024 * 1024
           /\ reads = <<>>
    /\ SizesChecked =>
           LET over == {k \in 1..Len(collected) :
                            statSize(fs0, collected[k]) > 10 * 1024 * 1024}
           IN  over # {} =>
                   /\ pc = "failed"
                   /\ error.kind = "FileTooLarge"
                   /\ \E k \in over : /\ error.arg = collected[k]
                                      /\ \A j \in over : k <= j

\* C9 witness: the merge failed with FileTooLarge on one of several files
C9_Witness ==
    /\ pc = "failed"
    /\ error.kind = "FileTooLarge"
    /\ \E k \in 1..Len(collected) : collected[k] # error.arg

\* C10: with an explicit output path the output path is that path verbatim
\* and no path is inferred: the merge never fails with MixedDates or
\* UndeterminedDate, whatever the dates of the inputs.
C10_ExplicitOutput ==
    request.output # <<>> =>
        /\ error.kind \notin {"MixedDates", "UndeterminedDate"}
        /\ FilesListed => outputPath = request.output

\* C10 witness: a merge with an explicit output has returned although no
\* output path could have been inferred from its inputs
C10_Witness ==
    /\ pc = "done"
    /\ request.output # <<>>
    /\ \/ \A k \in 1..Len(ordered) : ~HasDate(ordered[k])
       \/ \E j, k \in 1..Len(ordered) :
              /\ HasDate(ordered[j])
              /\ HasDate(ordered[k])
              /\ KeyOf(ordered[j]).date # KeyOf(ordered[k]).date

\* the name <YYYY-MM-DD>.txt of a date
DatedName(d) ==
    LET two(n) == <<DigitChars[(n \div 10) + 1], DigitChars[(n % 10) + 1]>>
    IN  String(d.year) \o <<"-">> \o two(d.month) \o <<"-">> \o two(d.day) \o TXT

\* every path has a date in its directory, and all agree on the directory
\* and on the date
CommonDatedDirectory(paths) ==
    /\ paths # <<>>
    /\ \A k \in 1..Len(paths) :
           /\ extractDateFromPath(paths[k]) # <<>>
           /\ dirname(paths[k]) = dirname(paths[1])
           /\ extractDateFromPath(paths[k]) = extractDateFromPath(paths[1])

\* determineOutputPath has been called: the sort is over
OutputAsked == pc \in {"read", "rename", "delete", "done"} \/ (pc = "failed" /\ ordered # <<>>)

KeyDates(paths) == {KeyOf(paths[k]).date[1] : k \in {j \in 1..Len(paths) : HasDate(paths[j])}}

C14_NoDuplicates ==
    FilesListed =>
        \A j, k \in 1..Len(sourcesToMerge) :
            j # k => sourcesToMerge[j] # sourcesToMerge[k]

(***************************************************************************)
(* Properties of getSortKey.                                                *)
(***************************************************************************)
\* six digits HHMMSS with hour <= 23, minute <= 59, second <= 59
TimeFieldInRange(field) ==
    /\ Len(field) = 6
    /\ \A k \in 1..6 : field[k] \in Digits
    /\ DigitVal(field[1]) * 10 + DigitVal(field[2]) <= 23
    /\ DigitVal(field[3]) * 10 + DigitVal(field[4]) <= 59
    /\ DigitVal(field[5]) * 10 + DigitVal(field[6]) <= 59

\* s is n digits
DigitField(s, n) == Len(s) = n /\ \A k \in 1..Len(s) : s[k] \in Digits

\* the name of the path without its directory and its extension .txt
BareName(filepath) ==
    LET name == filepath[Len(filepath)]
    IN  IF Len(name) >= 4 /\ SubSeq(name, Len(name) - 3, Len(name)) = TXT
        THEN SubSeq(name, 1, Len(name) - 4)
        ELSE name

\* a flat name (8/6/6 digits between '_') or a nested name (6/6 digits
\* around '-') whose time fields named by checked are in range
SegmentName(name, checked) ==
    LET flat   == split(name, "_")
        nested == split(name, "-")
    IN  \/ /\ Len(flat) = 3
           /\ DigitField(flat[1], 8)
           /\ DigitField(flat[2], 6)
           /\ DigitField(flat[3], 6)
           /\ \A k \in checked : TimeFieldInRange(flat[k + 1])
        \/ /\ Len(nested) = 2
           /\ DigitField(nested[1], 6)
           /\ DigitField(nested[2], 6)
           /\ \A k \in checked : TimeFieldInRange(nested[k])

\* C13: key extraction fails with UnrecognizedFilename naming the path for
\* every bare name that is not a flat or a nested name whose time fields,
\* the start time and the end time alike, are in range; the date part of a
\* flat name is not range-checked.
C13_UnrecognizedNames ==
    kpc \in {"returned", "thrown"} =>
        /\ (kpc = "thrown") <=> ~SegmentName(BareName(keyPath), {1, 2})
        /\ kpc = "thrown" => keyError = Error("UnrecognizedFilename", keyPath)

\* the same with the range check on the start time only: what getSortKey does
C13_StartTimeChecked ==
    kpc \in {"returned", "thrown"} =>
        /\ (kpc = "thrown") <=> ~SegmentName(BareName(keyPath), {1})
        /\ kpc = "thrown" => keyError = Error("UnrecognizedFilename", keyPath)

(***************************************************************************)
(* Properties of adjustTranscript.                                          *)
(***************************************************************************)
\* the number a pair of digit characters stands for
TwoDigitValue(a, b) == DigitVal(a) * 10 + DigitVal(b)

\* the two characters of a number below 100
TwoDigits(n) == <<DigitChars[(n \div 10) + 1], DigitChars[(n % 10) + 1]>>

\* the line starts with DD:DD:DD, hour <= 23, minute <= 59, second <= 59
IsTimestampLine(line) ==
    /\ Len(line) >= 8
    /\ \A k \in {1, 2, 4, 5, 7, 8} : line[k] \in Digits
    /\ line[3] = ":"
    /\ line[6] = ":"
    /\ TwoDigitValue(line[1], line[2]) <= 23
    /\ TwoDigitValue(line[4], line[5]) <= 59
    /\ TwoDigitValue(line[7], line[8]) <= 59

\* the seconds since midnight a timestamp line starts with
LineSeconds(line) ==
    TwoDigitValue(line[1], line[2]) * 3600 + TwoDigitValue(line[4], line[5]) * 60
        + TwoDigitValue(line[7], line[8])

\* the calendar day after a day
NextDay(d) ==
    LET leap == (d.year % 4 = 0 /\ d.year % 100 # 0) \/ d.year % 400 = 0
        last == CASE d.month \in {1, 3, 5, 7, 8, 10, 12} -> 31
                  [] d.month \in {4, 6, 9, 11} -> 30
                  [] OTHER -> IF leap THEN 29 ELSE 28
    IN  IF d.day < last THEN [year |-> d.year, month |-> d.month, day |-> d.day + 1]
        ELSE IF d.month < 12 THEN [year |-> d.year, month |-> d.month + 1, day |-> 1]
             ELSE [year |-> d.year + 1, month |-> 1, day |-> 1]

\* the lines pushed so far that are timestamp lines
Stamped == {k \in 1..Len(adjustedLines) : IsTimestampLine(lines[k])}

\* every timestamp line pushed so far carries base + line time: the time is
\* the total mod 86400, the date the base date advanced by total div 86400
\* days, and the line starts with that time as HH:MM:SS
OffsetApplied ==
    \A k \in Stamped :
        LET total == (baseTime.hours * 3600 + baseTime.minutes * 60 + baseTime.seconds)
                         + LineSeconds(lines[k])
            time  == total % 86400
            days  == total \div 86400
        IN  /\ adjustedAt[k] # <<>>
            /\ days \in {0, 1}
            /\ adjustedAt[k][1].hours * 3600 + adjustedAt[k][1].minutes * 60
                   + adjustedAt[k][1].seconds = time
            /\ [year  |-> adjustedAt[k][1].year, month |-> adjustedAt[k][1].month,
                day   |-> adjustedAt[k][1].day]
                   = IF days = 0 THEN effectiveDate ELSE NextDay(effectiveDate)
            /\ SubSeq(adjustedLines[k], 1, 8)
                   = TwoDigits(time \div 3600) \o <<":">>
                         \o TwoDigits((time % 3600) \div 60) \o <<":">>
                         \o TwoDigits(time % 60)

\* C15: for every timestamp line adjustTranscript computes total =
\* seconds(baseTime) + seconds(line time); the adjusted time is total mod
\* 86400 and the adjusted date is the base date advanced by total div 86400
\* calendar days (0 or 1), with month, leap-year and year rollover; the
\* first 8 characters of the line become the adjusted time as HH:MM:SS.
C15_OffsetAndRollover == OffsetApplied

\* the same for the base dates of the years from 100 on
C15_FromYear100 == effectiveDate.year >= 100 => OffsetApplied

\* the same, the date left aside: a timestamp line crossed midnight in a
\* year from 100 on
C15_RolloverReached ==
    /\ apc = "returned"
    /\ effectiveDate.year >= 100
    /\ \E k \in Stamped : adjustedAt[k][1].day # effectiveDate.day

\* C16: adjustTranscript rewrites a line only if it has at least 8
\* characters and starts with DD:DD:DD digits in range; every other line is
\* emitted unchanged at the same line index without error, and of a rewritten
\* line everything from character 8 on is kept.
C16_OnlyTimestampLinesRewritten ==
    /\ Len(adjustedAt) = Len(adjustedLines)
    /\ thrown.kind \in {"none", "NoTimestamps"}
    /\ \A k \in 1..Len(adjustedLines) :
           IF IsTimestampLine(lines[k])
           THEN /\ adjustedAt[k] # <<>>
                /\ Len(adjustedLines[k]) = Len(lines[k])
                /\ SubSeq(adjustedLines[k], 9, Len(lines[k]))
                       = SubSeq(lines[k], 9, Len(lines[k]))
           ELSE /\ adjustedAt[k] = <<>>
                /\ adjustedLines[k] = lines[k]
    /\ apc = "returned" =>
           /\ Len(adjustedLines) = Len(lines)
           /\ splitLines(transcript[1].body) = adjustedLines

\* C16 witness: a transcript has been returned with a rewritten line that
\* has a rest, a line with an hour out of range and a line that is too short
C16_Witness ==
    /\ apc = "returned"
    /\ \E i, j, k \in 1..Len(lines) :
           /\ IsTimestampLine(lines[i]) /\ Len(lines[i]) > 8
           /\ ~IsTimestampLine(lines[j]) /\ Len(lines[j]) >= 8
           /\ lines[j][3] = ":"
           /\ Len(lines[k]) < 8 /\ Len(lines[k]) > 0

\* the number of newlines of a text
CountNL(text) == Cardinality({k \in 1..Len(text) : text[k] = NL})

\* C17: the body ends with a newline if and only if the input does, and it
\* holds exactly as many newlines as the input: the newline at the end is
\* put back once, never twice.
C17_TrailingNewline ==
    apc = "returned" =>
        /\ endsWithNL(transcript[1].body) <=> endsWithNL(contents)
        /\ CountNL(transcript[1].body) = CountNL(contents)

\* C17 witness: a transcript of several lines that ends with a newline has
\* been returned
C17_Witness ==
    /\ apc = "returned"
    /\ endsWithNL(contents)
    /\ Len(lines) >= 2

\* C18: adjustTranscript fails with NoTimestamps if and only if no line of
\* the input starts with a timestamp, and then returns no TranscriptUpdate.
C18_NoTimestamps ==
    apc \in {"returned", "thrown"} =>
        /\ (apc = "thrown") <=> (\A k \in 1..Len(lines) : ~IsTimestampLine(lines[k]))
        /\ apc = "thrown" => /\ thrown = Error("NoTimestamps", <<>>)
                             /\ transcript = <<>>
        /\ apc = "returned" => thrown = NoError /\ transcript # <<>>

\* C18 witness: adjustTranscript failed on lines of 8 characters and more,
\* none of them a timestamp line
C18_Witness ==
    /\ apc = "thrown"
    /\ thrown.kind = "NoTimestamps"
    /\ Len(lines) >= 2
    /\ \E k \in 1..Len(lines) : Len(lines[k]) >= 8

\* the datetime a is strictly before the datetime b
Earlier(a, b) ==
    LET dayOf(x)  == (x.year * 13 + x.month) * 32 + x.day
        timeOf(x) == (x.hours * 60 + x.minutes) * 60 + x.seconds
    IN  \/ dayOf(a) < dayOf(b)
        \/ dayOf(a) = dayOf(b) /\ timeOf(a) < timeOf(b)

\* C19: in the returned TranscriptUpdate firstTimestamp is the adjusted
\* datetime of the first timestamp line in file order and lastTimestamp that
\* of the last timestamp line in file order, not the maximum; with one
\* timestamp line the two are equal.
C19_FirstAndLast ==
    apc = "returned" =>
        /\ Stamped # {}
        /\ LET firstLine == CHOOSE k \in Stamped : \A j \in Stamped : k <= j
               lastLine  == CHOOSE k \in Stamped : \A j \in Stamped : j <= k
           IN  /\ transcript[1].firstTimestamp = adjustedAt[firstLine][1]
               /\ transcript[1].lastTimestamp = adjustedAt[lastLine][1]
        /\ Cardinality(Stamped) = 1 =>
               transcript[1].firstTimestamp = transcript[1].lastTimestamp

\* C19 witness: a returned lastTimestamp is earlier than the firstTimestamp
C19_Witness ==
    /\ apc = "returned"
    /\ Earlier(transcript[1].lastTimestamp, transcript[1].firstTimestamp)

\* the pairs of timestamp lines pushed so far with no timestamp line between
Consecutive ==
    {p \in Stamped \X Stamped :
        p[1] < p[2] /\ \A k \in Stamped : ~(p[1] < k /\ k < p[2])}

\* C20: hasOutOfOrderTimestamps is true if and only if the adjusted datetime
\* of some timestamp line is strictly less than that of the timestamp line
\* before it, the other lines in between ignored; equal or increasing
\* timestamps do not set it, and once set in the pass it stays set.
C20_OutOfOrder ==
    /\ hasOutOfOrder <=>
           \E p \in Consecutive :
               Earlier(adjustedAt[p[2]][1], adjustedAt[p[1]][1])
    /\ apc = "returned" => transcript[1].hasOutOfOrderTimestamps = hasOutOfOrder

\* C20 witness: a transcript was returned with the flag set by two timestamp
\* lines around another line
C20_Witness ==
    /\ apc = "returned"
    /\ transcript[1].hasOutOfOrderTimestamps
    /\ \E p \in Consecutive :
           /\ p[2] = p[1] + 2
           /\ Earlier(adjustedAt[p[2]][1], adjustedAt[p[1]][1])

(***************************************************************************)
(* Properties of the write and delete steps of executeMerge.                *)
(***************************************************************************)
\* C23: in executeMerge no source file is deleted before the write of the
\* merged output (temp file written and renamed onto the output path) has
\* completed; if reading a source or writing the output fails, the call
\* fails with IOError and no source has been deleted.
C23_WriteBeforeDelete ==
    [][ /\ deleted' # deleted =>
               /\ pc = "delete"
               /\ Len(reads) = Len(sourcesToMerge)
               /\ tempPath(outputPath) \notin DOMAIN fs
               /\ existsSync(fs, outputPath)
               /\ readFileSync(fs, outputPath) = merged
        /\ (pc \in {"read", "rename"} /\ pc' = "failed") =>
               /\ error'.kind = "IOError"
               /\ deleted' = <<>>
               /\ tempPath(outputPath) \notin DOMAIN fs'
               /\ \A k \in 1..Len(sourcesToMerge) : Untouched(sourcesToMerge[k])' ]_vars

\* C23 witness: the rename of the temp file failed in a merge that was to
\* delete two or more sources, all of them read
C23_Witness ==
    /\ pc = "failed"
    /\ error = Error("IOError", outputPath)
    /\ ~request.noDelete
    /\ Len(sourcesToMerge) >= 2
    /\ Len(reads) = Len(sourcesToMerge)
    /\ deleted = <<>>

\* C26: if deleting the k-th merged source fails, executeMerge aborts with
\* IOError and nothing is rolled back: the output file stays written with
\* the full merged content, sources 1..k-1 stay deleted and sources k..n
\* still exist.
C26_NoRollback ==
    [][ (pc = "delete" /\ pc' = "failed") =>
            /\ error'.kind = "IOError"
            /\ existsSync(fs', outputPath)
            /\ readFileSync(fs', outputPath)
                   = Joined(Segments(sourcesToMerge), Len(sourcesToMerge))
            /\ \A j \in 1..(idx - 1) : resolve(sourcesToMerge[j]) \notin DOMAIN fs'
            /\ \A j \in idx..Len(sourcesToMerge) : Untouched(sourcesToMerge[j])' ]_vars

\* C26 without the requests that pass a path twice: the same statement for
\* the merges whose list of sources holds each path once
C26_NoRollbackDistinct ==
    [][ (/\ pc = "delete" /\ pc' = "failed"
         /\ \A j, k \in 1..Len(sourcesToMerge) :
                sourcesToMerge[j] = sourcesToMerge[k] => j = k) =>
            /\ error'.kind = "IOError"
            /\ existsSync(fs', outputPath)
            /\ readFileSync(fs', outputPath)
                   = Joined(Segments(sourcesToMerge), Len(sourcesToMerge))
            /\ \A j \in 1..(idx - 1) : resolve(sourcesToMerge[j]) \notin DOMAIN fs'
            /\ \A j \in idx..Len(sourcesToMerge) : Untouched(sourcesToMerge[j])' ]_vars

\* a collected path is the output a merge of its directory would infer
MatchesInferred ==
    \E k \in 1..Len(collected) :
        /\ extractDateFromPath(collected[k]) # <<>>
        /\ basename(collected[k]) = DatedName(extractDateFromPath(collected[k])[1])

\* C30: the name merge infers for its output (<YYYY-MM-DD>.txt) is never a
\* recognized segment name, so a later merge whose patterns match a
\* previously inferred output file fails with UnrecognizedFilename before
\* the self-reference exclusion step is reached, and writes and deletes
\* nothing.
C30_InferredNameUnrecognized ==
    /\ (FilesListed /\ request.output = <<>>) => getSortKey(outputPath) = <<>>
    /\ MatchesInferred =>
           /\ \/ pc \in {"expand", "size", "sort"}
              \/ /\ pc = "failed"
                 /\ error.kind \in {"InvalidGlobPattern", "NoMatches", "FileTooLarge",
                                    "UnrecognizedFilename"}
           /\ (/\ SizesChecked
               /\ pc # "sort"
               /\ \A k \in 1..Len(collected) : ~tooLarge(statSize(fs0, collected[k]))) =>
                  error.kind = "UnrecognizedFilename"
           /\ outputPath = <<>>
           /\ outputCanonical = <<>>
           /\ sourcesToMerge = <<>>
           /\ reads = <<>>
           /\ deleted = <<>>
           /\ fs = fs0

\* C30 witness: a merge that was to delete its sources failed with
\* UnrecognizedFilename on the output an earlier merge inferred, matched
\* along with segments of that day
C30_Witness ==
    /\ pc = "failed"
    /\ error = Error("UnrecognizedFilename", InferredOutput)
    /\ ~request.noDelete
    /\ request.output = <<>>
    /\ \E k \in 1..Len(collected) : getSortKey(collected[k]) # <<>>

\* C28: whenever merge infers its output path (no explicit output) and
\* succeeds, the date in the output file name equals the sort-key date of
\* every merged file that has a date - including flat-named files (date in
\* the file name) that sit inside a dated directory.
C28_OutputDateIsKeyDate ==
    (pc = "done" /\ request.output = <<>>) =>
        \A k \in 1..Len(sourcesToMerge) :
            HasDate(sourcesToMerge[k]) =>
                basename(outputPath) = DatedName(KeyOf(sourcesToMerge[k]).date[1])

(***************************************************************************)
(* Properties of getSortKey on nested names.                                *)
(***************************************************************************)
\* the number written by four digits
FourDigitValue(s) == TwoDigitValue(s[1], s[2]) * 100 + TwoDigitValue(s[3], s[4])

\* the date the directory of the path spells: the parent directory named
\* YYYY-MM-DD, or else the last three segments YYYY/MM/DD with a month in
\* 1..12 and a day in 1..31; <<>> when neither
DirectoryDate(filepath) ==
    LET dir    == SubSeq(filepath, 1, Len(filepath) - 1)
        n      == Len(dir)
        parent == dir[n]
    IN  IF /\ n >= 1
           /\ Len(parent) = 10
           /\ \A k \in {1, 2, 3, 4, 6, 7, 9, 10} : parent[k] \in Digits
           /\ parent[5] = "-" /\ parent[8] = "-"
        THEN <<DateOnly(FourDigitValue(SubSeq(parent, 1, 4)),
                        TwoDigitValue(parent[6], parent[7]),
                        TwoDigitValue(parent[9], parent[10]))>>
        ELSE IF /\ n >= 3
                /\ DigitField(dir[n - 2], 4)
                /\ DigitField(dir[n - 1], 2)
                /\ DigitField(dir[n], 2)
                /\ TwoDigitValue(dir[n - 1][1], dir[n - 1][2]) \in 1..12
                /\ TwoDigitValue(dir[n][1], dir[n][2]) \in 1..31
             THEN <<DateOnly(FourDigitValue(dir[n - 2]),
                             TwoDigitValue(dir[n - 1][1], dir[n - 1][2]),
                             TwoDigitValue(dir[n][1], dir[n][2]))>>
             ELSE <<>>

\* the name of the path is HHMMSS-HHMMSS with a start time in range
NestedNamed(filepath) ==
    LET parts == split(BareName(filepath), "-")
    IN  /\ Len(parts) = 2
        /\ DigitField(parts[1], 6)
        /\ DigitField(parts[2], 6)
        /\ TimeFieldInRange(parts[1])

\* C25: for a nested-format name the date is recovered only from the
\* directory path - from an immediate parent directory named YYYY-MM-DD, or
\* else from the last three directory segments YYYY/MM/DD with month in
\* 1..12 and day in 1..31 - and when neither shape matches (e.g.
\* .../2025/13/27/) the sort key's date is absent and key extraction
\* succeeds without error.
C25_DateFromDirectory ==
    (kpc # "call" /\ NestedNamed(keyPath)) =>
        /\ kpc = "returned"
        /\ keyError = NoError
        /\ keyResult[1].date = DirectoryDate(keyPath)

\* C25 witness: the key of a nested name in 2025/13/27/ was returned
\* without a date
C25_Witness ==
    /\ kpc = "returned"
    /\ NestedNamed(keyPath)
    /\ dirname(keyPath) = <<String(2025), padStart2(13), padStart2(27)>>
    /\ keyResult[1].date = <<>>

(***************************************************************************)
(* Properties of parseTime and formatTime.                                  *)
(***************************************************************************)
\* the string is hh:mm:ss with two-digit fields, hh in 0..23 and mm, ss in
\* 0..59
ValidTimeString(s) ==
    /\ Len(s) = 8
    /\ \A k \in {1, 2, 4, 5, 7, 8} : s[k] \in Digits
    /\ s[3] = ":" /\ s[6] = ":"
    /\ TwoDigitValue(s[1], s[2]) \in 0..23
    /\ TwoDigitValue(s[4], s[5]) \in 0..59
    /\ TwoDigitValue(s[7], s[8]) \in 0..59

\* C21: for every string hh:mm:ss with two-digit fields, hh in 0..23 and mm,
\* ss in 0..59, formatTime(parseTime(s)) = s; for every string that violates
\* a range or the exact 8-character digit/colon shape, parseTime returns
\* null.
C21_RoundTrip ==
    /\ (rpc \notin {"idle", "call"} /\ ValidTimeString(timeString)) =>
           /\ rpc \in {"parsed", "formatted"}
           /\ parsedTime = <<Time(TwoDigitValue(timeString[1], timeString[2]),
                                  TwoDigitValue(timeString[4], timeString[5]),
                                  TwoDigitValue(timeString[7], timeString[8]))>>
           /\ rpc = "formatted" => formatted = timeString
    /\ (rpc \notin {"idle", "call"} /\ ~ValidTimeString(timeString)) =>
           /\ rpc = "null"
           /\ parsedTime = <<>>

\* C21 witness: a time with a field below 10 has been parsed and formatted
\* back
C21_Witness ==
    /\ rpc = "formatted"
    /\ formatted = timeString
    /\ parsedTime[1].hours < 10

(***************************************************************************)
(* Properties of executeUpdate.                                             *)
(***************************************************************************)
\* the four characters of a number below 10000
FourDigits(n) == TwoDigits(n \div 100) \o TwoDigits(n % 100)

\* HHMMSS of a DateTime
CompactTime(dt) == TwoDigits(dt.hours) \o TwoDigits(dt.minutes) \o TwoDigits(dt.seconds)

\* <outputDir>/<YYYY>/<MM>/<DD>/<HHMMSS>-<HHMMSS>.txt, or
\* <cwd>/<YYYYMMDD>_<HHMMSS>_<HHMMSS>.txt, with the times of first and last
\* and the date of last
AdjustedOutputPath(req, first, last) ==
    IF req.flattenOutput
    THEN <<FourDigits(last.year) \o TwoDigits(last.month) \o TwoDigits(last.day)
               \o <<"_">> \o CompactTime(first) \o <<"_">> \o CompactTime(last) \o TXT>>
    ELSE req.outputDir
             \o <<FourDigits(last.year), TwoDigits(last.month), TwoDigits(last.day),
                  CompactTime(first) \o <<"-">> \o CompactTime(last) \o TXT>>

\* the running executeUpdate has returned and no merge has begun
UpdateReturned == upc = "returned" /\ pc = "idle"

\* C22: executeUpdate writes the adjusted body to
\* <outputDir>/<YYYY>/<MM>/<DD>/<HHMMSS>-<HHMMSS>.txt (nested) or
\* <cwd>/<YYYYMMDD>_<HHMMSS>_<HHMMSS>.txt (flat), where the two times are
\* those of firstTimestamp and lastTimestamp and the date is the date of
\* lastTimestamp, so a transcript that crosses midnight is filed under the
\* later day.
C22_OutputPath ==
    UpdateReturned =>
        /\ updateOutputPath = AdjustedOutputPath(updateRequest, transcript[1].firstTimestamp,
                                                 transcript[1].lastTimestamp)
        /\ updateOutputPath \in DOMAIN fs
        /\ fs[updateOutputPath].kind = "file"
        /\ fs[updateOutputPath].content = transcript[1].body

\* C22 for the dates from year 1000 on: the same statement for the requests
\* whose date has a year of four digits
C22_FromYear1000 ==
    (UpdateReturned /\ updateRequest.date.year >= 1000) =>
        /\ updateOutputPath = AdjustedOutputPath(updateRequest, transcript[1].firstTimestamp,
                                                 transcript[1].lastTimestamp)
        /\ updateOutputPath \in DOMAIN fs
        /\ fs[updateOutputPath].kind = "file"
        /\ fs[updateOutputPath].content = transcript[1].body

\* a transcript that crosses midnight has been written under the later day
C22_MidnightReached ==
    /\ UpdateReturned
    /\ updateRequest.date = DateOnly(2024, 12, 25)
    /\ ~updateRequest.flattenOutput
    /\ transcript[1].firstTimestamp.day = 25
    /\ updateOutputPath = Existing

InputSize == statSize(fsAtCall, updateRequest.inputFile)

\* C27: executeUpdate checks the input's size before reading it (size
\* strictly greater than 10 MiB fails with FileTooLarge, unreadable or
\* missing input fails with FileIOError), and whenever it fails with
\* FileIOError on stat/read, FileTooLarge or NoTimestamps it has created no
\* directory and written no file.
C27_FailsBeforeWriting ==
    (pc = "idle" /\ upc \notin {"idle", "stat"}) =>
        /\ ~existsSync(fsAtCall, updateRequest.inputFile) =>
               upc = "failed" /\ updateError.kind = "FileIOError"
        /\ existsSync(fsAtCall, updateRequest.inputFile) =>
               IF InputSize > 10 * 1024 * 1024
               THEN upc = "failed" /\ updateError.kind = "FileTooLarge" /\ apc = "idle"
               ELSE updateError.kind # "FileTooLarge"
        /\ (/\ upc = "failed"
            /\ \/ updateError.kind \in {"FileTooLarge", "NoTimestamps"}
               \/ updateError.kind = "FileIOError" /\ updateOutputPath = <<>>) =>
               /\ fs = fsAtCall
               /\ dirs = dirsAtCall

\* C27 witness: a call that was to write below a directory that does not
\* exist failed with FileTooLarge on an input one byte above the limit
C27_Witness ==
    /\ upc = "failed"
    /\ updateError.kind = "FileTooLarge"
    /\ InputSize = 10 * 1024 * 1024 + 1
    /\ ~updateRequest.flattenOutput
    /\ nestedDir(updateRequest.date) \notin dirs

\* the entry of the session's history for the path
WrittenAs(filepath) == CHOOSE w \in {written[k] : k \in 1..Len(written)} : w.path = filepath

\* C29: update followed by merge keeps chronology: if two transcripts are
\* written by executeUpdate in nested mode under the same output directory
\* and the resulting files are merged, the segment whose first adjusted
\* timestamp (date and time) is earlier comes first in the merged output -
\* also when one of the segments crosses midnight.
C29_UpdateThenMerge ==
    (/\ FilesListed
     /\ Len(written) = 2
     /\ written[1].path # written[2].path
     /\ Len(sourcesToMerge) = 2) =>
        ~Earlier(WrittenAs(sourcesToMerge[2]).first, WrittenAs(sourcesToMerge[1]).first)

\* C29 for the sessions where no transcript crosses midnight
C29_WithinOneDay ==
    (/\ FilesListed
     /\ Len(written) = 2
     /\ written[1].path # written[2].path
     /\ Len(sourcesToMerge) = 2
     /\ \A k \in 1..2 : written[k].first.day = written[k].last.day) =>
        ~Earlier(WrittenAs(sourcesToMerge[2]).first, WrittenAs(sourcesToMerge[1]).first)

====
